---- MODULE Spec2Model ----
(***************************************************************************)
(* Chat-session engine (src/hooks/useChatSession.ts) driven by the event   *)
(* sequence of AstroShivaClient.streamChat (src/app/page.tsx).             *)
(*                                                                         *)
(* Strings are sequences of fragments (one-character strings for user      *)
(* text, longer literals for the fixed texts of the code); string          *)
(* concatenation is \o.                                                    *)
(*                                                                         *)
(* React state is held in the variables named as in the hook.  The values  *)
(* a callback closes over are those of the last render; they are kept in   *)
(* `rendered` and refreshed by the Render action.  Every async function    *)
(* is cut at its awaits: one action per synchronous segment.               *)
(***************************************************************************)
EXTENDS Integers, Sequences, FiniteSets, TLC

\* ---------------------------------------------------------------- bounds
MaxTurns  == 2   \* sendMessage calls that pass the guard
MaxEvents == 2   \* chunk / thinking events of one stream
MaxReloads == 2  \* loadSessions calls of a signed-in user
MaxLoads  == 2   \* loadSession calls
MaxAttempts == 3   \* the largest maxAttempts pollProfileStatus is called with
MaxWords  == 8   \* words of a message a title is made of

\* ---------------------------------------------------------- JS values
\* Session ids are TLA+ strings; every other string is a sequence of
\* fragments.
Undefined == "undefined"       \* the value undefined, where an id is expected
NoId      == ""                \* the id ''
Null      == <<"<null>">>      \* the value null, where a text is expected
EmptyStr  == << >>             \* the text ''

\* x || y on texts
OrElse(x, y) == IF x = EmptyStr THEN y ELSE x

\* id || '' on session ids
idOrEmpty(id) == IF id = Undefined \/ id = NoId THEN NoId ELSE id

Range(s) == { s[i] : i \in 1..Len(s) }

WhiteSpace == {" ", "\n"}
LowerCase  == <<"a", "b", "c", "d", "e", "h", "i", "m", "n", "o", "r", "s", "t", "u", "y">>
UpperCase  == <<"A", "B", "C", "D", "E", "H", "I", "M", "N", "O", "R", "S", "T", "U", "Y">>
Digits     == {"0", "1"}
\* the characters \w matches
WordChars  == Range(LowerCase) \cup Range(UpperCase) \cup Digits \cup {"W", "_"}

RECURSIVE trimStart(_)
trimStart(s) ==
  IF s # << >> /\ Head(s) \in WhiteSpace THEN trimStart(Tail(s)) ELSE s

RECURSIVE trimEnd(_)
trimEnd(s) ==
  IF s # << >> /\ s[Len(s)] \in WhiteSpace
  THEN trimEnd(SubSeq(s, 1, Len(s) - 1)) ELSE s

\* String.prototype.trim
trim(s) == trimEnd(trimStart(s))

\* String.prototype.toUpperCase on one character
toUpperCase(c) ==
  IF \E k \in 1..Len(LowerCase) : LowerCase[k] = c
  THEN UpperCase[CHOOSE k \in 1..Len(LowerCase) : LowerCase[k] = c]
  ELSE c

\* content.replace(/[^\w\s]/g, ' ')
stripPunctuation(s) ==
  [i \in 1..Len(s) |->
     IF s[i] \in WordChars \/ s[i] \in WhiteSpace THEN s[i] ELSE " "]

\* s.split(/\s+/): the sequence of maximal runs of non-space characters;
\* called on a trimmed string, so the only empty piece is that of ''.
RECURSIVE splitWords(_, _, _)
splitWords(s, cur, acc) ==
  IF s = << >> THEN Append(acc, cur)
  ELSE IF Head(s) \in WhiteSpace
       THEN splitWords(trimStart(s), << >>, Append(acc, cur))
       ELSE splitWords(Tail(s), Append(cur, Head(s)), acc)

\* words.join(' ')
RECURSIVE joinWords(_)
joinWords(ws) ==
  IF ws = << >> THEN << >>
  ELSE IF Len(ws) = 1 THEN ws[1]
  ELSE ws[1] \o <<" ">> \o joinWords(Tail(ws))

\* useChatSession.ts generateSessionTitle
generateSessionTitle(content) ==
  LET cleanContent == trim(stripPunctuation(content))
      all   == splitWords(cleanContent, << >>, << >>)
      words == SubSeq(all, 1, IF Len(all) < 6 THEN Len(all) ELSE 6)
      joined == joinWords(words)
      title == IF joined = << >> THEN joined
               ELSE <<toUpperCase(Head(joined))>> \o Tail(joined)
      title2 == IF Len(content) > Len(title) THEN title \o <<"...">> ELSE title
  IN OrElse(title2, <<"New Chat">>)

\* ------------------------------------------------------------ inputs
Texts          == { << >>, <<" ">>, <<" ", "h", "i">> }   \* sendMessage arguments
Letters        == <<"a", "b", "c", "d", "e">>
HeaderIds      == { "s1", "s2" }                          \* X-Session-ID values
InitialIds     == { Undefined, "c0" }                     \* options.initialSessionId

\* Messages a title is made of: up to MaxWords one-letter words, separated
\* by a space, two spaces or a comma and a space, with or without
\* punctuation before and after; a message of punctuation only; and the
\* question 'What does Saturn in my 10th house mean?'.
TitleWords == <<"h", "i", "a", "b", "c", "d", "e", "m", "n">>

RECURSIVE sentence(_, _)
sentence(n, separator) ==
  IF n = 1 THEN << TitleWords[1] >>
  ELSE sentence(n - 1, separator) \o separator \o << TitleWords[n] >>

Separators == { <<" ">>, <<" ", " ">>, <<",", " ">> }

SaturnQuestion ==
  << "W", "h", "a", "t", " ", "d", "o", "e", "s", " ", "S", "a", "t", "u", "r", "n",
     " ", "i", "n", " ", "m", "y", " ", "1", "0", "t", "h", " ", "h", "o", "u", "s",
     "e", " ", "m", "e", "a", "n", "?" >>

TitleTexts ==
  { lead \o sentence(n, separator) \o trail :
      n \in 1..MaxWords, separator \in Separators,
      lead \in { << >>, <<"(">> }, trail \in { << >>, <<"?">> } }
  \cup { SaturnQuestion, <<"!">> }

\* Thinking texts as word sequences.
ThinkingContents == { <<"Using", "tool:", "natal">> }

\* The text delta carried by the k-th chunk event of a stream: the deltas
\* of one stream are pairwise different.
ChunkContents(k) == { << Letters[k] >> }

\* -------------------------------------------------- streamChat's errors
\* page.tsx 1123-1152: the message of the error thrown for a non-ok status;
\* bodyMessage is errorResponse.error.message.
httpErrorMessage(status, bodyMessage) ==
  IF status = 403
  THEN <<"Session ownership error. You do not have access to this session.">>
  ELSE IF status = 409
  THEN <<"Please complete ", "onboarding", " before starting a chat.">>
  ELSE IF status = 429
  THEN OrElse(bodyMessage,
              <<"Rate limit exceeded. Please wait before sending another message.">>)
  ELSE bodyMessage

\* page.tsx 939: the fallback message of parseErrorResponse
fallbackMessage(status) == <<"HTTP ", ToString(status), ": ">>

\* Every error message a turn's stream can throw with.
HttpStatuses == {409}

\* page.tsx 1170: the protocol error thrown after the headers (that of
\* 1165 is handled the same way)
ProtocolErrors == { <<"No response body">> }

\* fetch() and reader.read() reject with a TypeError
NetworkError == <<"Failed to fetch">>

\* ------------------------------------------------------------- state
VARIABLES
  messages,          \* useState: EnhancedChatMessage[]
  isStreaming,       \* useState
  isThinking,        \* useState
  currentSessionId,  \* useState: string | undefined
  activeTools,       \* useState: ToolCall[]
  sessionTitle,      \* useState
  isLoadingSession,  \* useState
  error,             \* useState: string | null
  rendered,          \* the state values the current callbacks close over
  turns,             \* one record per sendMessage call that passed its guard
  now,               \* the last value read from Date.now()
  timers,            \* pending setTimeout(() => setActiveTools([]), 2000)
  loading,           \* the loadSession calls made so far, one record each
  blankSeen,         \* the last sendMessage call had blank text and returned
  roster,            \* useSessionTitles: its state, the title cache, its reloads
  stream,            \* one run of streamChat: its position, locals and output
  poll,              \* one run of pollProfileStatus: its position and locals
  page               \* the chat page: what its title effect last ran with

\* everything but rendered
state == << messages, isStreaming, isThinking, currentSessionId, activeTools,
            sessionTitle, isLoadingSession, error, turns, now, timers, loading,
            blankSeen >>

\* the session roster, the stream client, the profile poll and the chat
\* page, which the engine never writes
others == << roster, stream, poll, page >>

vars == << state, rendered, others >>

\* What a render hands to the callbacks (the useCallback dependencies).
Snapshot ==
  [ isStreaming      |-> isStreaming,
    currentSessionId |-> currentSessionId,
    messagesLen      |-> Len(messages) ]

\* part_004 642-649: the hook's state, the module-level titleCache, and the
\* loadSessions calls made so far
SessionIds == { "s1", "s2" }        \* session.id of the roster's sessions
NoTitle    == <<"<undefined>">>     \* titleCache.get(id) of an absent key

rosterInitial ==
  [ sessions   |-> << >>,
    isLoading  |-> FALSE,
    error      |-> Null,
    titleCache |-> [ id \in SessionIds |-> NoTitle ],
    reloads    |-> << >> ]

\* page.tsx 887-898: the fields of the error a streamChat call threw
NotThrown == [ code |-> "none", message |-> EmptyStr, statusCode |-> 0 ]

\* page.tsx 1112: no streamChat call has been made.  pc is the await or
\* yield the generator is suspended at; events are the events handed to the
\* consumer; wire holds the body's bytes not yet read and sent all of them;
\* body is the state of the response body the reader is attached to.
streamInitial ==
  [ pc          |-> "idle",
    status      |-> 0,
    header      |-> Undefined,
    contentType |-> "",
    hasBody     |-> FALSE,
    sent        |-> << >>,
    wire        |-> << >>,
    buffer      |-> << >>,
    toYield     |-> << >>,
    events      |-> << >>,
    body        |-> "none",
    thrown      |-> NotThrown ]

\* page.tsx 1315: no pollProfileStatus call has been made.  pc is the await
\* the call is suspended at; i and maxAttempts are its locals; results
\* records what each getProfile call resolved with and rejected whether
\* one of them threw.
pollInitial ==
  [ pc          |-> "idle",
    i           |-> 0,
    maxAttempts |-> 0,
    results     |-> << >>,
    rejected    |-> FALSE,
    thrown      |-> EmptyStr ]

\* login/page.tsx 363-367: the effect has not run; titleDeps are the
\* values of its dependencies at its last run.
pageInitial == [ titleDeps |-> << >> ]

Init ==
  /\ roster = rosterInitial
  /\ stream = streamInitial
  /\ poll = pollInitial
  /\ page = pageInitial
  /\ messages = << >>
  /\ isStreaming = FALSE
  /\ isThinking = FALSE
  /\ currentSessionId \in InitialIds
  /\ activeTools = << >>
  /\ sessionTitle = EmptyStr
  /\ isLoadingSession = (currentSessionId # Undefined)
  /\ error = Null
  /\ rendered = [ isStreaming |-> FALSE, currentSessionId |-> currentSessionId,
                  messagesLen |-> 0 ]
  /\ turns = << >>
  /\ now = 0
  /\ timers = 0
  /\ loading = << >>
  /\ blankSeen = FALSE

\* A re-render: the callbacks are re-created over the current state.
Render ==
  /\ rendered # Snapshot
  /\ rendered' = Snapshot
  /\ UNCHANGED << state, others >>

\* ------------------------------------------------------- sendMessage
\* the user message inserted as already delivered
userMessageComplete(trimmedContent, time) ==
  [ role      |-> "user",
    content   |-> trimmedContent,
    status    |-> "complete",
    displayId |-> <<"user", time>>,
    sessionId |-> idOrEmpty(rendered.currentSessionId) ]

\* the guard without the trim
passesGuardUntrimmed(content) == ~(content = EmptyStr \/ rendered.isStreaming)

\* useChatSession.ts 152
passesGuard(content) == ~(trim(content) = EmptyStr \/ rendered.isStreaming)

\* useChatSession.ts 158-169
userMessage(trimmedContent, time) ==
  [ role      |-> "user",
    content   |-> trimmedContent,
    status    |-> "sending",
    displayId |-> <<"user", time>>,
    sessionId |-> idOrEmpty(rendered.currentSessionId) ]

\* The locals of one sendMessage call and the position of its stream.
\* userIndex is the place the user message is appended at; delivered and
\* sidSeen record the events consumed so far.
newTurn(trimmedContent, time) ==
  [ pc                  |-> "fetch",
    content             |-> trimmedContent,
    sessionId           |-> rendered.currentSessionId,
    userDisplayId       |-> <<"user", time>>,
    userIndex           |-> Len(messages) + 1,
    assistantDisplayId  |-> <<"assistant", time>>,
    hasReceivedResponse |-> FALSE,
    currentTools        |-> << >>,
    nEvents             |-> 0,
    delivered           |-> << >>,
    sidSeen             |-> Undefined,
    thrown              |-> Null,
    status              |-> 0 ]

\* useChatSession.ts 151-194, up to the first await of streamChat.
\* dt is the time that passed since the previous reading of the clock.
SendMessage(content, dt) ==
  IF ~passesGuard(content)
  THEN /\ dt = 0
       /\ blankSeen' = (trim(content) = EmptyStr)
       /\ UNCHANGED << messages, isStreaming, isThinking, currentSessionId,
                       activeTools, sessionTitle, isLoadingSession, error,
                       turns, now, timers, loading >>
  ELSE LET trimmedContent == trim(content)
           time == now + dt
       IN /\ Len(turns) < MaxTurns
          /\ now' = time
          /\ error' = Null
          /\ messages' = Append(messages, userMessage(trimmedContent, time))
          /\ sessionTitle' =
               IF idOrEmpty(rendered.currentSessionId) = NoId
                  /\ rendered.messagesLen = 0
               THEN generateSessionTitle(trimmedContent)
               ELSE sessionTitle
          /\ isStreaming' = TRUE
          /\ isThinking' = FALSE
          /\ activeTools' = << >>
          /\ turns' = Append(turns, newTurn(trimmedContent, time))
          /\ blankSeen' = FALSE
          /\ UNCHANGED << currentSessionId, isLoadingSession, timers, loading >>

\* ------------------------------------------------- the stream's events
Min(S) == CHOOSE x \in S : \A y \in S : x <= y

\* useChatSession.ts 201-203: the three patterns, tried in order, on a text
\* given as its words; Undefined when none matches.
toolMatch(ws) ==
  LET usingTool == { i \in 1..(Len(ws) - 2) : ws[i] = "Using" /\ ws[i + 1] = "tool:" }
      chart     == { i \in 1..(Len(ws) - 1) : ws[i + 1] = "chart" }
      analyzing == { i \in 1..(Len(ws) - 1) : ws[i] = "Analyzing" }
  IN IF usingTool # {} THEN ws[Min(usingTool) + 2]
     ELSE IF chart # {} THEN ws[Min(chart)]
     ELSE IF analyzing # {} THEN ws[Min(analyzing) + 1]
     ELSE Undefined

\* a tool named again is put back to 'running'
toolsAfterThinkingRestarted(currentTools, content) ==
  LET toolName == toolMatch(content)
  IN IF toolName = Undefined THEN currentTools
     ELSE IF \E i \in 1..Len(currentTools) : currentTools[i].name = toolName
     THEN [ i \in 1..Len(currentTools) |->
              IF currentTools[i].name = toolName
              THEN [ currentTools[i] EXCEPT !.status = "running" ]
              ELSE currentTools[i] ]
     ELSE Append(currentTools, [ name |-> toolName, status |-> "running" ])

\* useChatSession.ts 205-218: currentTools after a thinking event
toolsAfterThinking(currentTools, content) ==
  LET toolName == toolMatch(content)
  IN IF toolName # Undefined
        /\ ~\E i \in 1..Len(currentTools) : currentTools[i].name = toolName
     THEN Append(currentTools, [ name |-> toolName, status |-> "running" ])
     ELSE currentTools

\* useChatSession.ts 224
completeTools(currentTools) ==
  [ i \in 1..Len(currentTools) |-> [ currentTools[i] EXCEPT !.status = "completed" ] ]

\* the updater replacing the content instead of appending to it
appendChunkReplacing(prev, content, turn) ==
  IF prev # << >> /\ prev[Len(prev)].role = "assistant"
  THEN Append(SubSeq(prev, 1, Len(prev) - 1),
              [ prev[Len(prev)] EXCEPT !.content = content, !.status = "streaming" ])
  ELSE Append(prev, [ role      |-> "assistant",
                      content   |-> content,
                      status    |-> "streaming",
                      displayId |-> turn.assistantDisplayId,
                      sessionId |-> idOrEmpty(turn.sessionId) ])

\* useChatSession.ts 227-253: the updater of a chunk event
appendChunk(prev, content, turn) ==
  IF prev # << >> /\ prev[Len(prev)].role = "assistant"
  THEN LET lastMessage == prev[Len(prev)]
       IN Append(SubSeq(prev, 1, Len(prev) - 1),
                 [ lastMessage EXCEPT !.content = OrElse(lastMessage.content, EmptyStr) \o content,
                                      !.status = "streaming" ])
  ELSE Append(prev, [ role      |-> "assistant",
                      content   |-> content,
                      status    |-> "streaming",
                      displayId |-> turn.assistantDisplayId,
                      sessionId |-> idOrEmpty(turn.sessionId) ])

\* useChatSession.ts 257-267: the updater run when the loop has ended
completeLast(prev, turn) ==
  IF prev # << >> /\ prev[Len(prev)].role = "user"
  THEN [ i \in 1..Len(prev) |->
           IF prev[i].displayId = turn.userDisplayId
           THEN [ prev[i] EXCEPT !.status = "complete" ] ELSE prev[i] ]
  ELSE [ i \in 1..Len(prev) |->
           IF i = Len(prev)
           THEN [ prev[i] EXCEPT !.status = "complete" ] ELSE prev[i] ]

ApologyText ==
  <<"I apologize, but I was unable to generate a response. Please try again.">>

\* the apology appended whatever was received
appendApologyAlways(prev, turn, time) ==
  Append(prev, [ role      |-> "assistant",
                 content   |-> ApologyText,
                 status    |-> "error",
                 displayId |-> <<"error", time>>,
                 sessionId |-> idOrEmpty(turn.sessionId) ])

\* useChatSession.ts 269-283
appendApology(prev, turn, time) ==
  IF ~turn.hasReceivedResponse
  THEN Append(prev, [ role      |-> "assistant",
                      content   |-> ApologyText,
                      status    |-> "error",
                      displayId |-> <<"error", time>>,
                      sessionId |-> idOrEmpty(turn.sessionId) ])
  ELSE prev

\* the catch block leaving the user message as it is
catchUpdateUnmarked(prev, turn, errorMessage, time) ==
  Append(prev, [ role      |-> "assistant",
                 content   |-> <<"Sorry, there was an error: ">> \o errorMessage,
                 status    |-> "error",
                 displayId |-> <<"error", time>>,
                 sessionId |-> idOrEmpty(turn.sessionId) ])

\* useChatSession.ts 295-313: the updater of the catch block
catchUpdate(prev, turn, errorMessage, time) ==
  LET updated == [ i \in 1..Len(prev) |->
                     IF prev[i].displayId = turn.userDisplayId
                     THEN [ prev[i] EXCEPT !.status = "error" ] ELSE prev[i] ]
  IN Append(updated, [ role      |-> "assistant",
                       content   |-> <<"Sorry, there was an error: ">> \o errorMessage,
                       status    |-> "error",
                       displayId |-> <<"error", time>>,
                       sessionId |-> idOrEmpty(turn.sessionId) ])

InFlight(t) == t \in 1..Len(turns) /\ turns[t].pc # "finished"

\* The call has returned: its locals are gone, what it consumed remains
\* on record.
returned(turn, errorMessage, status) ==
  [ turn EXCEPT !.pc = "finished", !.hasReceivedResponse = FALSE,
                !.currentTools = << >>, !.nEvents = 0, !.sidSeen = Undefined,
                !.thrown = errorMessage, !.status = status ]

\* an id already held is kept
keepHeldSessionId(held, sessionId) == IF held = Undefined THEN sessionId ELSE held

\* useChatSession.ts 195-197: the session-id event, yielded by page.tsx
\* 1155-1158 when the response carries X-Session-ID.
adoptSessionId(held, sessionId) == sessionId

SessionIdEvent(t, sessionId) ==
  /\ InFlight(t) /\ turns[t].pc = "fetch"
  /\ currentSessionId' = adoptSessionId(currentSessionId, sessionId)
  /\ turns' = [ turns EXCEPT ![t].pc = "headers", ![t].sidSeen = sessionId ]
  /\ UNCHANGED << messages, isStreaming, isThinking, activeTools, sessionTitle,
                  isLoadingSession, error, now, timers, loading, blankSeen >>

\* page.tsx 1160-1177: content type and body are as expected, the reader
\* is taken and the first read is awaited.
BeginBody(t) ==
  /\ InFlight(t) /\ turns[t].pc \in {"fetch", "headers"}
  /\ turns' = [ turns EXCEPT ![t].pc = "body" ]
  /\ UNCHANGED << messages, isStreaming, isThinking, currentSessionId,
                  activeTools, sessionTitle, isLoadingSession, error,
                  now, timers, loading, blankSeen >>

\* the reasoning text shown as an assistant message
messagesAfterThinkingShown(prev, content, turn) == appendChunk(prev, content, turn)

\* useChatSession.ts 198-219: the branch calls no setMessages
messagesAfterThinking(prev, content, turn) == prev

\* useChatSession.ts 198-219
ThinkingEvent(t, content) ==
  /\ InFlight(t) /\ turns[t].pc = "body" /\ turns[t].nEvents < MaxEvents
  /\ content # EmptyStr
  /\ isThinking' = TRUE
  /\ messages' = messagesAfterThinking(messages, content, turns[t])
  /\ LET tools == toolsAfterThinking(turns[t].currentTools, content)
     IN /\ activeTools' = IF tools # turns[t].currentTools THEN tools ELSE activeTools
        /\ turns' = [ turns EXCEPT ![t].currentTools = tools,
                                   ![t].nEvents = @ + 1 ]
  /\ UNCHANGED << isStreaming, currentSessionId, sessionTitle,
                  isLoadingSession, error, now, timers, loading, blankSeen >>

\* useChatSession.ts 220-254
ChunkEvent(t, content) ==
  /\ InFlight(t) /\ turns[t].pc = "body" /\ turns[t].nEvents < MaxEvents
  /\ content # EmptyStr
  /\ isThinking' = FALSE
  /\ LET tools == completeTools(turns[t].currentTools)
     IN /\ activeTools' = tools
        /\ turns' = [ turns EXCEPT ![t].currentTools = tools,
                                   ![t].hasReceivedResponse = TRUE,
                                   ![t].nEvents = @ + 1,
                                   ![t].delivered = @ \o content ]
  /\ messages' = appendChunk(messages, content, turns[t])
  /\ UNCHANGED << isStreaming, currentSessionId, sessionTitle,
                  isLoadingSession, error, now, timers, loading, blankSeen >>

\* page.tsx 1178, 1207: the read loop ends and done is yielded; no branch
\* of useChatSession.ts 195-254 handles it.
DoneEvent(t) ==
  /\ InFlight(t) /\ turns[t].pc = "body"
  /\ turns' = [ turns EXCEPT ![t].pc = "done" ]
  /\ UNCHANGED << messages, isStreaming, isThinking, currentSessionId,
                  activeTools, sessionTitle, isLoadingSession, error,
                  now, timers, loading, blankSeen >>

\* no finally block: the flags stay as they are
finallyFlagsKept == [ isStreaming |-> isStreaming, isThinking |-> isThinking ]

\* useChatSession.ts 316-318: what the finally block sets
finallyFlags == [ isStreaming |-> FALSE, isThinking |-> FALSE ]

\* useChatSession.ts 257-290 and 316-324: the generator has returned
LoopExit(t) ==
  /\ InFlight(t) /\ turns[t].pc = "done"
  /\ messages' = appendApology(completeLast(messages, turns[t]), turns[t], now)
  /\ timers' = timers + 1
  /\ isStreaming' = finallyFlags.isStreaming
  /\ isThinking' = finallyFlags.isThinking
  /\ turns' = [ turns EXCEPT ![t] = returned(@, Null, 200) ]
  /\ UNCHANGED << currentSessionId, activeTools, sessionTitle,
                  isLoadingSession, error, now, loading, blankSeen >>

\* useChatSession.ts 292-324: catch and finally
Catch(t, errorMessage, status) ==
  /\ messages' = catchUpdate(messages, turns[t], errorMessage, now)
  /\ error' = errorMessage
  /\ isStreaming' = finallyFlags.isStreaming
  /\ isThinking' = finallyFlags.isThinking
  /\ turns' = [ turns EXCEPT ![t] = returned(@, errorMessage, status) ]
  /\ UNCHANGED << currentSessionId, activeTools, sessionTitle,
                  isLoadingSession, now, timers, loading, blankSeen >>

\* page.tsx 1123-1152: a non-ok status
HttpError(t, status) ==
  /\ InFlight(t) /\ turns[t].pc = "fetch"
  /\ Catch(t, httpErrorMessage(status, fallbackMessage(status)), status)

\* page.tsx 1161-1171: wrong content type, or no body
ProtocolError(t, errorMessage) ==
  /\ InFlight(t) /\ turns[t].pc \in {"fetch", "headers"}
  /\ Catch(t, errorMessage, 200)

\* page.tsx 1114, 1177: fetch or reader.read() rejects
NetworkFailure(t) ==
  /\ InFlight(t) /\ turns[t].pc \in {"fetch", "body"}
  /\ Catch(t, NetworkError, 0)

\* useChatSession.ts 285-287: the delayed clearing of the tool calls
TimerFires ==
  /\ timers > 0
  /\ timers' = timers - 1
  /\ activeTools' = << >>
  /\ UNCHANGED << messages, isStreaming, isThinking, currentSessionId,
                  sessionTitle, isLoadingSession, error, turns, now,
                  loading, blankSeen >>

\* ------------------------------------------- clearSession, loadSession
\* useChatSession.ts 327-333
ClearSession ==
  /\ messages' = << >>
  /\ currentSessionId' = Undefined
  /\ sessionTitle' = EmptyStr
  /\ activeTools' = << >>
  /\ error' = Null
  /\ UNCHANGED << isStreaming, isThinking, isLoadingSession, turns,
                  now, timers, loading, blankSeen >>

LoadIds == { "s1", "s2" }           \* the ids loadSession is called with
Titles  == { EmptyStr, <<"T">> }    \* response.data.session.title, '' when absent

\* What GET /v1/chat/sessions/{id}/messages can hold for a session.
Histories(sessionId) ==
  { << >>,
    << [ role |-> "user", content |-> <<"q">>, id |-> <<"m", 1>>,
         sessionId |-> sessionId ],
       [ role |-> "assistant", content |-> <<"r">>, id |-> <<"m", 2>>,
         sessionId |-> sessionId ] >> }

\* the loaded messages tagged as being sent
enhanceAsSending(history) ==
  [ i \in 1..Len(history) |->
      [ role      |-> history[i].role,
        content   |-> history[i].content,
        status    |-> "sending",
        displayId |-> history[i].id,
        sessionId |-> history[i].sessionId ] ]

\* useChatSession.ts 117-121
enhance(history) ==
  [ i \in 1..Len(history) |->
      [ role      |-> history[i].role,
        content   |-> history[i].content,
        status    |-> "complete",
        displayId |-> history[i].id,
        sessionId |-> history[i].sessionId ] ]

\* the id of a loaded session adopted only when none is held
loadedSessionIdIfNone(held, sessionId) ==
  IF held = Undefined THEN sessionId ELSE held

\* useChatSession.ts 123
loadedSessionId(held, sessionId) == sessionId

\* Call k of loadSession awaits its fetch.
Loading(k) == k \in 1..Len(loading) /\ loading[k].pc = "fetch"

\* The place of the next response applied among those applied so far.
nextApplied == Cardinality({ k \in 1..Len(loading) : loading[k].applied > 0 }) + 1

\* useChatSession.ts 109-114, up to the await.  outcome, history and
\* applied record how the call ended: what it did, the history it was
\* given, and its place among the responses applied.
LoadSession(sessionId) ==
  /\ Len(loading) < MaxLoads
  /\ loading' = Append(loading, [ sessionId |-> sessionId, pc |-> "fetch",
                                  outcome |-> "none", history |-> << >>,
                                  applied |-> 0 ])
  /\ isLoadingSession' = TRUE
  /\ error' = Null
  /\ UNCHANGED << messages, isStreaming, isThinking, currentSessionId,
                  activeTools, sessionTitle, turns, now, timers, blankSeen >>

\* useChatSession.ts 116-128 and 131-133: the fetch of call k resolved
LoadResolves(k, success, history, title) ==
  /\ Loading(k)
  /\ IF success
     THEN /\ messages' = enhance(history)
          /\ currentSessionId' = loadedSessionId(currentSessionId, loading[k].sessionId)
          /\ sessionTitle' = IF title # EmptyStr THEN title ELSE sessionTitle
          /\ loading' = [ loading EXCEPT ![k].pc = "settled",
                                         ![k].outcome = "applied",
                                         ![k].history = history,
                                         ![k].applied = nextApplied ]
     ELSE /\ loading' = [ loading EXCEPT ![k].pc = "settled",
                                         ![k].outcome = "refused" ]
          /\ UNCHANGED << messages, currentSessionId, sessionTitle >>
  /\ isLoadingSession' = FALSE
  /\ UNCHANGED << isStreaming, isThinking, activeTools, error, turns,
                  now, timers, blankSeen >>

\* useChatSession.ts 129-133; the message is that of page.tsx 1415
LoadRejects(k) ==
  /\ Loading(k)
  /\ loading' = [ loading EXCEPT ![k].pc = "settled", ![k].outcome = "threw" ]
  /\ error' = <<"Session messages fetch failed: HTTP ", "500">>
  /\ isLoadingSession' = FALSE
  /\ UNCHANGED << messages, isStreaming, isThinking, currentSessionId,
                  activeTools, sessionTitle, turns, now, timers, blankSeen >>

\* ------------------------------------- useSessionTitles (the roster)
\* A session of GET /v1/chat/sessions; createdAt is given as the text
\* toLocaleDateString() makes of it.
rosterSession(id, summary) == [ id |-> id, summary |-> summary, createdAt |-> "1/1/2026" ]

\* What response.data.sessions can hold: a placeholder summary, a usable
\* summary, and two sessions of which one has no summary.
ServerRosters ==
  { << rosterSession("s1", <<"New Chat">>) >>,
    << rosterSession("s1", <<"A">>) >>,
    << rosterSession("s1", Null), rosterSession("s2", <<"B">>) >> }

\* The content of the first user message of a session's first page; Null
\* when there is none, the response is unsuccessful or the fetch rejects.
FirstMessages == { Null, <<"h", "i", "!">> }

\* The titles updateSessionTitle is called with.
NewTitles == { <<"T">> }

\* part_004 718-719, 657-658: a cache entry that counts as one
isCached(title) == title # NoTitle /\ title # EmptyStr

\* part_004 652, 723
usableSummary(summary) ==
  summary # Null /\ summary # EmptyStr /\ summary # <<"New Chat">>
  /\ trim(summary) # EmptyStr

\* .replace(/\s+/g, ' ')
RECURSIVE collapseSpaces(_)
collapseSpaces(s) ==
  IF s = << >> THEN << >>
  ELSE IF Head(s) \in WhiteSpace
       THEN <<" ">> \o collapseSpaces(trimStart(s))
       ELSE <<Head(s)>> \o collapseSpaces(Tail(s))

\* part_004 660-677: the title made of the first message; EmptyStr when
\* the message gives none.
titleOfMessage(firstMessage) ==
  IF firstMessage = Null \/ firstMessage = EmptyStr THEN EmptyStr
  ELSE LET cleanMessage == trim(collapseSpaces(stripPunctuation(firstMessage)))
           all    == SelectSeq(splitWords(cleanMessage, << >>, << >>),
                               LAMBDA w : Len(w) > 0)
           words  == SubSeq(all, 1, IF Len(all) < 6 THEN Len(all) ELSE 6)
           joined == joinWords(words)
       IN IF joined = EmptyStr THEN EmptyStr
          ELSE LET title == <<toUpperCase(Head(joined))>> \o Tail(joined)
               IN IF Len(cleanMessage) > Len(title)
                  THEN title \o <<"...">> ELSE title

\* part_004 679-680
fallbackTitle(session) == <<"Chat ", session.createdAt>>

\* part_004 651-683: what generateSessionTitle returns, given the cache
rosterTitle(cache, session, firstMessage) ==
  IF usableSummary(session.summary) THEN session.summary
  ELSE IF isCached(cache[session.id]) THEN cache[session.id]
  ELSE IF titleOfMessage(firstMessage) # EmptyStr THEN titleOfMessage(firstMessage)
  ELSE fallbackTitle(session)

\* the title is returned without being stored
rosterTitleUnstored(cache, session, firstMessage) == FALSE

\* part_004 651-683: whether generateSessionTitle calls titleCache.set
rosterTitleStores(cache, session, firstMessage) ==
  usableSummary(session.summary) \/ ~isCached(cache[session.id])

\* the cache is not consulted
cacheMiss(cache, session, forceRefresh) == FALSE

\* part_004 718-719
cacheHit(cache, session, forceRefresh) ==
  isCached(cache[session.id]) /\ ~forceRefresh

\* part_004 716-727, the synchronous part of the map callback, run over the
\* sessions from position i on: the cache it leaves, the titles settled
\* (NoTitle where a message fetch was issued) and whether it stored any.
RECURSIVE mapSessions(_, _, _, _)
mapSessions(list, i, forceRefresh, acc) ==
  IF i > Len(list) THEN acc
  ELSE LET session == list[i]
       IN IF cacheHit(acc.cache, session, forceRefresh)
          THEN mapSessions(list, i + 1, forceRefresh,
                 [ acc EXCEPT !.titles = Append(@, acc.cache[session.id]) ])
          ELSE IF usableSummary(session.summary)
          THEN mapSessions(list, i + 1, forceRefresh,
                 [ acc EXCEPT !.titles = Append(@, session.summary),
                              !.cache[session.id] = session.summary,
                              !.stored = TRUE ])
          ELSE mapSessions(list, i + 1, forceRefresh,
                 [ acc EXCEPT !.titles = Append(@, NoTitle),
                              !.pending = @ \cup {i} ])

\* part_004 720, 725, 740-748: SessionWithTitle
withTitles(list, titles) ==
  [ i \in 1..Len(list) |-> [ id |-> list[i].id, displayTitle |-> titles[i] ] ]

ReloadInFlight(r) == r \in 1..Len(roster.reloads) /\ roster.reloads[r].pc # "settled"

\* part_004 694-698: loadSessions of a signed-out user
LoadSessionsSignedOut ==
  /\ roster' = [ roster EXCEPT !.sessions = << >> ]
  /\ UNCHANGED << state, rendered, stream, poll, page >>

\* part_004 700-709: loadSessions up to the await of getSessions.  The
\* controller of the previous call is aborted; its signal is handed to no
\* request.  overlapped, surfaced and stored record the call's history:
\* the calls in flight when it started, whether it called setSessions or
\* setError with an error, whether it wrote the title cache.
LoadSessions(forceRefresh) ==
  /\ Len(roster.reloads) < MaxReloads
  /\ LET n == Len(roster.reloads)
         aborted == [ r \in 1..n |->
                       IF r = n THEN [ roster.reloads[r] EXCEPT !.aborted = TRUE ]
                       ELSE roster.reloads[r] ]
     IN roster' = [ roster EXCEPT
          !.isLoading = TRUE,
          !.error = Null,
          !.reloads = Append(aborted,
             [ pc           |-> "sessions",
               forceRefresh |-> forceRefresh,
               aborted      |-> FALSE,
               list         |-> << >>,
               titles       |-> << >>,
               pending      |-> {},
               overlapped   |-> { r \in 1..n : ReloadInFlight(r) },
               surfaced     |-> FALSE,
               stored       |-> FALSE ]) ]
  /\ UNCHANGED << state, rendered, stream, poll, page >>

\* part_004 753, 757-758: setSessions and the finally block
settleReload(ros, r, list, titles) ==
  [ ros EXCEPT !.sessions = withTitles(list, titles),
               !.isLoading = FALSE,
               !.reloads[r].pc = "settled",
               !.reloads[r].surfaced = TRUE ]

\* part_004 711-714, 754-758: the call ends with an error
failReload(ros, r, message) ==
  [ ros EXCEPT !.error = message,
               !.isLoading = FALSE,
               !.reloads[r].pc = "settled",
               !.reloads[r].surfaced = TRUE ]

\* part_004 709-727, 753-758: getSessions resolved
SessionsResolve(r, success, list) ==
  /\ ReloadInFlight(r) /\ roster.reloads[r].pc = "sessions"
  /\ IF ~success
     THEN roster' = failReload(roster, r, <<"Failed to load sessions">>)
     ELSE LET m == mapSessions(list, 1, roster.reloads[r].forceRefresh,
                               [ cache |-> roster.titleCache, titles |-> << >>,
                                 pending |-> {}, stored |-> FALSE ])
              ros == [ roster EXCEPT !.titleCache = m.cache,
                                     !.reloads[r].list = list,
                                     !.reloads[r].titles = m.titles,
                                     !.reloads[r].pending = m.pending,
                                     !.reloads[r].stored = m.stored,
                                     !.reloads[r].pc = "messages" ]
          IN roster' = IF m.pending = {}
                       THEN settleReload(ros, r, list, m.titles)
                       ELSE ros
  /\ UNCHANGED << state, rendered, stream, poll, page >>

\* part_004 754-758; the message is that of page.tsx 1366
SessionsReject(r) ==
  /\ ReloadInFlight(r) /\ roster.reloads[r].pc = "sessions"
  /\ roster' = failReload(roster, r, <<"Sessions fetch failed: HTTP ", "500">>)
  /\ UNCHANGED << state, rendered, stream, poll, page >>

\* part_004 728-749, 753-758: the message fetch of the session at position
\* i resolved or rejected; the last one to do so ends Promise.all.
MessagesSettle(r, i, firstMessage) ==
  /\ ReloadInFlight(r) /\ roster.reloads[r].pc = "messages"
  /\ i \in roster.reloads[r].pending
  /\ LET rl      == roster.reloads[r]
         session == rl.list[i]
         title   == rosterTitle(roster.titleCache, session, firstMessage)
         stores  == rosterTitleStores(roster.titleCache, session, firstMessage)
         titles  == [ rl.titles EXCEPT ![i] = title ]
         ros     == [ roster EXCEPT
                        !.titleCache[session.id] = IF stores THEN title ELSE @,
                        !.reloads[r].titles = titles,
                        !.reloads[r].pending = @ \ {i},
                        !.reloads[r].stored = @ \/ stores ]
     IN roster' = IF rl.pending = {i}
                  THEN settleReload(ros, r, rl.list, titles)
                  ELSE ros
  /\ UNCHANGED << state, rendered, stream, poll, page >>

\* part_004 686-691: titleCache.set and the setSessions updater
withSessionTitle(ros, sessionId, title) ==
  [ ros EXCEPT
      !.titleCache[sessionId] = title,
      !.sessions = [ i \in 1..Len(ros.sessions) |->
                       IF ros.sessions[i].id = sessionId
                       THEN [ ros.sessions[i] EXCEPT !.displayTitle = title ]
                       ELSE ros.sessions[i] ] ]

\* part_004 685-692
UpdateSessionTitle(sessionId, title) ==
  /\ roster' = withSessionTitle(roster, sessionId, title)
  /\ UNCHANGED << state, rendered, stream, poll, page >>

\* ------------------------------------------------------ the chat page
\* login/page.tsx 364: if (currentSessionId && sessionTitle)
titleForRoster(id, title) == id # Undefined /\ id # NoId /\ title # EmptyStr

\* login/page.tsx 363-367: the effect runs after a render in which
\* currentSessionId or sessionTitle differ from its last run
TitleEffect ==
  /\ page.titleDeps # << currentSessionId, sessionTitle >>
  /\ page' = [ page EXCEPT !.titleDeps = << currentSessionId, sessionTitle >> ]
  /\ roster' = IF titleForRoster(currentSessionId, sessionTitle)
               THEN withSessionTitle(roster, currentSessionId, sessionTitle)
               ELSE roster
  /\ UNCHANGED << state, rendered, stream, poll >>

\* ------------------------------------------- streamChat (the client)
\* Bytes and characters are strings; "C3" "A9" are the two bytes of the
\* character "é", every other byte is the character of the same name.  The
\* prefix 'data: ' is the two pieces "da" "ta: ".  A JSON payload is "{",
\* one piece naming its fields, the characters of its text field, "}":
\*   "t"   {"type":"text-delta","delta":...}
\*   "tt"  {"type":"text-delta","text":...}
\*   "td"  {"type":"text-delta","delta":...,"text":"old"}
\*   "r"   {"type":"reasoning-delta","delta":...}
\*   "rc"  {"type":"reasoning-delta","content":...}
\*   "c"   {"content":...}
\*   "x"   {"type":"ping","delta":...}
\*   "xc"  {"type":"ping","content":...}
PayloadKinds == { "t", "tt", "td", "r", "rc", "c", "x", "xc" }

\* page.tsx 1191: the object JSON.parse gives for a payload of that kind and
\* text; a field the payload does not have is EmptyStr (as falsy as
\* undefined), type "" is an absent type.
parsed(kind, text) ==
  [ type    |-> IF kind \in {"t", "tt", "td"} THEN "text-delta"
                ELSE IF kind \in {"r", "rc"} THEN "reasoning-delta"
                ELSE IF kind \in {"x", "xc"} THEN "ping"
                ELSE "",
    delta   |-> IF kind \in {"t", "td", "r", "x"} THEN text ELSE EmptyStr,
    text    |-> IF kind = "tt" THEN text
                ELSE IF kind = "td" THEN <<"old">>
                ELSE EmptyStr,
    content |-> IF kind \in {"c", "rc", "xc"} THEN text ELSE EmptyStr ]
Replacement  == "U+FFFD"

\* page.tsx 1173, 1180: new TextDecoder().decode(value), each chunk decoded
\* on its own: an incomplete sequence at either end of the chunk becomes
\* U+FFFD.
RECURSIVE decode(_)
decode(bytes) ==
  IF bytes = << >> THEN << >>
  ELSE IF Head(bytes) = "C3"
       THEN IF Len(bytes) >= 2 /\ bytes[2] = "A9"
            THEN <<"é">> \o decode(SubSeq(bytes, 3, Len(bytes)))
            ELSE <<Replacement>> \o decode(Tail(bytes))
  ELSE IF Head(bytes) = "A9" THEN <<Replacement>> \o decode(Tail(bytes))
  ELSE <<Head(bytes)>> \o decode(Tail(bytes))

\* page.tsx 1182: buffer.split('\n\n')
RECURSIVE splitFrames(_, _, _)
splitFrames(text, cur, acc) ==
  IF text = << >> THEN Append(acc, cur)
  ELSE IF Len(text) >= 2 /\ text[1] = "\n" /\ text[2] = "\n"
       THEN splitFrames(SubSeq(text, 3, Len(text)), << >>, Append(acc, cur))
       ELSE splitFrames(Tail(text), Append(cur, Head(text)), acc)

\* page.tsx 1191: JSON.parse succeeds
validJson(text) ==
  LET json == trim(text)
  IN /\ Len(json) >= 3
     /\ json[1] = "{" /\ json[Len(json)] = "}"
     /\ json[2] \in PayloadKinds
     /\ \A i \in 3..(Len(json) - 1) :
          json[i] \notin PayloadKinds \cup WhiteSpace \cup {"{", "}", "da", "ta: "}

\* page.tsx 1191-1202: the events of one payload, none when it does not
\* parse or has no known shape
parseEvent(dataContent) ==
  IF ~validJson(dataContent) THEN << >>
  ELSE LET json == trim(dataContent)
           kind == json[2]
           text == SubSeq(json, 3, Len(json) - 1)
           data == parsed(kind, text)
       IN IF data.type = "text-delta" /\ (data.delta # EmptyStr \/ data.text # EmptyStr)
          THEN << [ type |-> "chunk", content |-> OrElse(data.delta, data.text) ] >>
          ELSE IF data.type = "reasoning-delta" /\ data.delta # EmptyStr
          THEN << [ type |-> "thinking", content |-> data.delta ] >>
          ELSE IF data.content # EmptyStr
          THEN << [ type |-> "chunk", content |-> data.content ] >>
          ELSE << >>

\* page.tsx 1186-1203: the events of one piece of the buffer
eventsOfLine(line) ==
  IF ~(Len(line) >= 2 /\ line[1] = "da" /\ line[2] = "ta: ") THEN << >>
  ELSE LET dataContent == SubSeq(line, 3, Len(line))
       IN IF trim(dataContent) = EmptyStr THEN << >>
          ELSE IF trim(dataContent) = <<"[DONE]">> THEN << >>
          ELSE parseEvent(dataContent)

\* the loop left at the first piece that yields nothing
RECURSIVE eventsOfLinesUntilSkipped(_)
eventsOfLinesUntilSkipped(lines) ==
  IF lines = << >> \/ eventsOfLine(Head(lines)) = << >> THEN << >>
  ELSE eventsOfLine(Head(lines)) \o eventsOfLinesUntilSkipped(Tail(lines))

\* page.tsx 1185-1204: for (const line of lines)
RECURSIVE eventsOfLines(_)
eventsOfLines(lines) ==
  IF lines = << >> THEN << >>
  ELSE eventsOfLine(Head(lines)) \o eventsOfLines(Tail(lines))

\* page.tsx 1180-1204: one pass of the read loop over a chunk: the buffer
\* it leaves and the events it yields
feed(buffer, bytes) ==
  LET parts == splitFrames(buffer \o decode(bytes), << >>, << >>)
  IN [ buffer |-> parts[Len(parts)],
       events |-> eventsOfLines(SubSeq(parts, 1, Len(parts) - 1)) ]

\* the bytes of data: <payload>\n\n
frame(kind, textBytes) ==
  <<"da", "ta: ", "{", kind>> \o textBytes \o <<"}", "\n", "\n">>

\* Valid frames, one with a two-byte character.
ValidFrames ==
  { frame("t", <<"C3", "A9">>), frame("t", <<"h">>), frame("r", <<"i">>),
    frame("c", <<"h">>) }

\* One frame of every payload shape.
ShapeFrames == { frame(kind, <<"h">>) : kind \in PayloadKinds }

\* Records that carry no event: a blank payload, the sentinel, a payload
\* that is no JSON.
SkippedRecords ==
  { <<"da", "ta: ", " ", "\n", "\n">>,
    <<"da", "ta: ", "[DONE]", "\n", "\n">>,
    <<"da", "ta: ", "{", "t", "h", "\n", "\n">> }

\* A skipped record followed by a well-formed one.
SkippedThenFrame == { skipped \o frame("t", <<"h">>) : skipped \in SkippedRecords }

\* Bodies whose last record is not followed by a blank line: it has no
\* line end at all, or a single one.
UnterminatedBodies ==
  { <<"da", "ta: ", "{", "t", "i", "}">>,
    frame("t", <<"h">>) \o <<"da", "ta: ", "{", "t", "i", "}">>,
    frame("t", <<"h">>) \o <<"da", "ta: ", "{", "c", "i", "}", "\n">> }

\* What a response body can hold.
Bodies ==
  ValidFrames \cup ShapeFrames \cup SkippedThenFrame \cup UnterminatedBodies \cup
  { << >>,
    frame("t", <<"h">>) \o frame("r", <<"i">>) \o <<"da", "ta: ", "[DONE]", "\n", "\n">>,
    <<"da", "ta: ", "{", "t", "h", "\n", "\n">> }

\* a status below 500 counts as ok
responseOkBelow500(status) == status < 500

\* page.tsx 1123: response.ok
responseOk(status) == status \in 200..299

ResponseStatuses == { 200, 401, 403, 404, 409, 429, 500 }

\* The body of an error response: a structured API error, other JSON (with
\* or without a message), or no JSON.
ErrorBodies ==
  { [ kind |-> "api", code |-> "UNAUTHORIZED", message |-> <<"Token expired">> ],
    [ kind |-> "json", code |-> "", message |-> <<"Oops">> ],
    [ kind |-> "json", code |-> "", message |-> EmptyStr ],
    [ kind |-> "text", code |-> "", message |-> EmptyStr ] }

\* page.tsx 917-943
parseErrorResponse(errorBody, status) ==
  IF errorBody.kind = "api"
  THEN [ code |-> errorBody.code, message |-> errorBody.message ]
  ELSE IF errorBody.kind = "json"
  THEN [ code |-> "INTERNAL_ERROR",
         message |-> OrElse(errorBody.message, fallbackMessage(status)) ]
  ELSE [ code |-> "INTERNAL_ERROR", message |-> fallbackMessage(status) ]

\* page.tsx 1127-1151: the code of the error thrown
httpErrorCode(status, bodyCode) ==
  IF status = 403 THEN "FORBIDDEN"
  ELSE IF status = 409 THEN "USER_NOT_READY"
  ELSE IF status = 429 THEN "RATE_LIMIT_EXCEEDED"
  ELSE bodyCode

\* page.tsx 1127-1151
httpError(status, errorResponse) ==
  [ code       |-> httpErrorCode(status, errorResponse.code),
    message    |-> httpErrorMessage(status, errorResponse.message),
    statusCode |-> status ]

\* an error that is no AstroShivaApiError
plainError(name, message) == [ code |-> name, message |-> message, statusCode |-> 0 ]

\* the event yielded whatever the header holds
sessionIdEventsAlways(header) == << [ type |-> "session-id", sessionId |-> header ] >>

\* page.tsx 1155-1158; Undefined is headers.get(...) === null
sessionIdEvents(header) ==
  IF header # Undefined /\ header # NoId
  THEN << [ type |-> "session-id", sessionId |-> header ] >>
  ELSE << >>

\* what is left in the buffer handled as one more record
remainderEventsFlushed(buffer) == eventsOfLine(trimEnd(buffer))

\* page.tsx 1177-1178: if (done) break, the buffer is not looked at again
remainderEvents(buffer) == << >>

\* done only after some event
doneEventsIfAny(events) ==
  IF events = << >> THEN << >> ELSE << [ type |-> "done" ] >>

\* page.tsx 1207
doneEvents(events) == << [ type |-> "done" ] >>

\* page.tsx 1112-1121
StreamChat ==
  /\ stream.pc = "idle"
  /\ stream' = [ stream EXCEPT !.pc = "fetch" ]
  /\ UNCHANGED << state, rendered, roster, poll, page >>

\* page.tsx 1114: fetch rejects
FetchRejects ==
  /\ stream.pc = "fetch"
  /\ stream' = [ stream EXCEPT !.pc = "thrown",
                               !.thrown = plainError("TypeError", NetworkError) ]
  /\ UNCHANGED << state, rendered, roster, poll, page >>

\* no check of the content type or of the body
afterHeadersUnchecked(st) == [ st EXCEPT !.pc = "read", !.body = "open" ]

\* page.tsx 1160-1177: from the content-type check to the first read
afterHeaders(st) ==
  IF st.contentType \notin {"text/event-stream", "application/json"}
  THEN [ st EXCEPT !.pc = "thrown",
                   !.thrown = plainError("Error", <<"Unexpected response type: ",
                                 st.contentType, ". Expected text/event-stream.">>) ]
  ELSE IF ~st.hasBody
  THEN [ st EXCEPT !.pc = "thrown",
                   !.thrown = plainError("Error", <<"No response body">>) ]
  ELSE [ st EXCEPT !.pc = "read", !.body = "open" ]

\* The generator hands over the first of the events and is suspended at
\* that yield; with no event it goes on as next says.
yieldOr(st, events, at, next) ==
  IF events = << >> THEN next
  ELSE [ st EXCEPT !.pc = at,
                   !.events = Append(@, Head(events)),
                   !.toYield = Tail(events) ]

\* page.tsx 1123-1152: fetch resolved with a non-ok status, or (1154-1177)
\* with an ok one
FetchResolves(status, errorBody, header, contentType, hasBody, bytes) ==
  /\ stream.pc = "fetch"
  /\ IF ~responseOk(status)
     THEN stream' = [ stream EXCEPT
            !.pc = "thrown", !.status = status,
            !.thrown = httpError(status, parseErrorResponse(errorBody, status)) ]
     ELSE LET st == [ stream EXCEPT !.status = status, !.header = header,
                                    !.contentType = contentType,
                                    !.hasBody = hasBody,
                                    !.sent = IF hasBody THEN bytes ELSE << >>,
                                    !.wire = IF hasBody THEN bytes ELSE << >> ]
          IN stream' = yieldOr(st, sessionIdEvents(header), "atSessionId",
                               afterHeaders(st))
  /\ UNCHANGED << state, rendered, roster, poll, page >>

\* the consumer asks for the next event after session-id
ResumeAfterSessionId ==
  /\ stream.pc = "atSessionId"
  /\ stream' = afterHeaders(stream)
  /\ UNCHANGED << state, rendered, roster, poll, page >>

\* page.tsx 1177-1204: read resolves with the next n bytes
ReadChunk(n) ==
  /\ stream.pc = "read"
  /\ n \in 1..Len(stream.wire)
  /\ LET fed == feed(stream.buffer, SubSeq(stream.wire, 1, n))
         st  == [ stream EXCEPT !.buffer = fed.buffer,
                                !.wire = SubSeq(@, n + 1, Len(@)) ]
     IN stream' = yieldOr(st, fed.events, "atEvent", st)
  /\ UNCHANGED << state, rendered, roster, poll, page >>

\* the consumer asks for the next event after a chunk or thinking event
ResumeAfterEvent ==
  /\ stream.pc = "atEvent"
  /\ stream' = yieldOr(stream, stream.toYield, "atEvent",
                       [ stream EXCEPT !.pc = "read" ])
  /\ UNCHANGED << state, rendered, roster, poll, page >>

\* page.tsx 1177-1178, 1207: read resolves with done, the body is closed
ReadDone ==
  /\ stream.pc = "read" /\ stream.wire = << >>
  /\ LET st == [ stream EXCEPT !.body = "closed" ]
     IN stream' = yieldOr(st, remainderEvents(stream.buffer) \o doneEvents(stream.events),
                          "atDone",
                          [ st EXCEPT !.pc = "returned" ])
  /\ UNCHANGED << state, rendered, roster, poll, page >>

\* page.tsx 1208: the consumer asks for the next event after done
ResumeAfterDone ==
  /\ stream.pc = "atDone"
  /\ stream' = [ stream EXCEPT !.pc = "returned" ]
  /\ UNCHANGED << state, rendered, roster, poll, page >>

\* page.tsx 1177: read rejects, the body is errored
ReadRejects ==
  /\ stream.pc = "read"
  /\ stream' = [ stream EXCEPT !.pc = "thrown", !.body = "errored",
                               !.thrown = plainError("TypeError", NetworkError) ]
  /\ UNCHANGED << state, rendered, roster, poll, page >>

\* The consumer leaves its for-await loop while the generator is suspended
\* at a yield: return() ends the generator there.  page.tsx 1168-1208 has
\* no try/finally, so no code of streamChat runs.
Return ==
  /\ stream.pc \in {"atSessionId", "atEvent", "atDone"}
  /\ stream' = [ stream EXCEPT !.pc = "abandoned", !.toYield = << >> ]
  /\ UNCHANGED << state, rendered, roster, poll, page >>

\* ------------------------------------------------- pollProfileStatus
\* page.tsx 998, 1278-1313: what getProfile resolves with: a profile in one
\* of its four statuses, or success: false (404, 401, no token).
ProfileResults ==
  { [ success |-> TRUE, status |-> st ] :
      st \in { "processing", "completed", "failed", "onboarding" } }
  \cup { [ success |-> FALSE, status |-> Undefined ] }

\* one attempt more than asked for
attemptsLeftInclusive(i, maxAttempts) == i <= maxAttempts

\* page.tsx 1316: the loop condition
attemptsLeft(i, maxAttempts) == i < maxAttempts

\* page.tsx 1316-1317, 1334: the loop condition is tested; the next
\* getProfile call is made, or the loop is left and the timeout thrown
enterLoop(p) ==
  IF attemptsLeft(p.i, p.maxAttempts)
  THEN [ p EXCEPT !.pc = "getProfile" ]
  ELSE [ p EXCEPT !.pc = "thrown", !.thrown = <<"Onboarding polling timeout">> ]

\* page.tsx 1315-1317: the call, up to its first await
PollProfileStatus(maxAttempts) ==
  /\ poll.pc = "idle"
  /\ poll' = enterLoop([ poll EXCEPT !.i = 0, !.maxAttempts = maxAttempts ])
  /\ UNCHANGED << state, rendered, roster, stream, page >>

\* page.tsx 1317-1331: getProfile resolved
ProfileResolves(result) ==
  /\ poll.pc = "getProfile"
  /\ LET p == [ poll EXCEPT !.results = Append(@, result) ]
     IN poll' =
          IF result.success /\ result.status = "completed"
          THEN [ p EXCEPT !.pc = "returned" ]
          ELSE IF result.success /\ result.status = "failed"
          THEN [ p EXCEPT !.pc = "thrown",
                          !.thrown = <<"Onboarding failed. Please try again.">> ]
          ELSE [ p EXCEPT !.pc = "sleep" ]
  /\ UNCHANGED << state, rendered, roster, stream, page >>

\* page.tsx 1308-1310, 1317: getProfile threw (a status that is not ok, or
\* fetch rejected); nothing in the loop catches it
ProfileRejects ==
  /\ poll.pc = "getProfile"
  /\ poll' = [ poll EXCEPT !.pc = "thrown", !.rejected = TRUE,
                           !.thrown = <<"Profile fetch failed: HTTP ", "500">> ]
  /\ UNCHANGED << state, rendered, roster, stream, page >>

\* page.tsx 1331, 1316: the interval has elapsed, i++
IntervalElapses ==
  /\ poll.pc = "sleep"
  /\ poll' = enterLoop([ poll EXCEPT !.i = @ + 1 ])
  /\ UNCHANGED << state, rendered, roster, stream, page >>

\* ------------------------------------------------------ specifications
Turns == 1..Len(turns)

\* The milliseconds between two readings of the clock; the first reading
\* is 0.
Elapsed == IF turns = << >> THEN {0} ELSE {0, 1}

\* What a step does to the callbacks in the hands of the caller: nothing
\* until a render (Stale), or a render right after it (Fresh).
Stale == UNCHANGED << rendered, others >>
Fresh == rendered' = Snapshot' /\ UNCHANGED others

\* Any caller, at any time, with the callbacks of whatever render it took
\* them from: a render follows a state change at some later point.
Next ==
  \/ \E c \in Texts, dt \in Elapsed : SendMessage(c, dt) /\ Stale
  \/ \E t \in Turns, id \in HeaderIds : SessionIdEvent(t, id) /\ Stale
  \/ \E t \in Turns : BeginBody(t) /\ Stale
  \/ \E t \in Turns, c \in ThinkingContents : ThinkingEvent(t, c) /\ Stale
  \/ \E t \in Turns : \E c \in ChunkContents(Len(turns[t].delivered) + 1) :
        ChunkEvent(t, c) /\ Stale
  \/ \E t \in Turns : DoneEvent(t) /\ Stale
  \/ \E t \in Turns : LoopExit(t) /\ Stale
  \/ \E t \in Turns, st \in HttpStatuses : HttpError(t, st) /\ Stale
  \/ \E t \in Turns, e \in ProtocolErrors : ProtocolError(t, e) /\ Stale
  \/ \E t \in Turns : NetworkFailure(t) /\ Stale
  \/ TimerFires /\ Stale
  \/ Render

Spec == Init /\ [][Next]_vars

\* The engine as a user interface drives it: every call is made on the
\* callbacks of the latest render, and sendMessage only when no send is in
\* flight.
Idle == \A t \in Turns : ~InFlight(t)

\* The ids the next X-Session-ID can carry: the header ids are
\* interchangeable until the engine holds one of them, so the first one it
\* receives is called s1; from then on the server may repeat the id held or
\* send the other one.
NextHeaderIds == IF currentSessionId \in HeaderIds THEN HeaderIds ELSE { "s1" }

SerialNext ==
  \/ \E c \in Texts, dt \in Elapsed : Idle /\ SendMessage(c, dt) /\ Fresh
  \/ \E t \in Turns, id \in NextHeaderIds : SessionIdEvent(t, id) /\ Fresh
  \/ \E t \in Turns : BeginBody(t) /\ Fresh
  \/ \E t \in Turns, c \in ThinkingContents : ThinkingEvent(t, c) /\ Fresh
  \/ \E t \in Turns : \E c \in ChunkContents(Len(turns[t].delivered) + 1) :
        ChunkEvent(t, c) /\ Fresh
  \/ \E t \in Turns : DoneEvent(t) /\ Fresh
  \/ \E t \in Turns : LoopExit(t) /\ Fresh
  \/ \E t \in Turns, st \in HttpStatuses : HttpError(t, st) /\ Fresh
  \/ \E t \in Turns, e \in ProtocolErrors : ProtocolError(t, e) /\ Fresh
  \/ \E t \in Turns : NetworkFailure(t) /\ Fresh
  \/ TimerFires /\ Fresh

SerialSpec == Init /\ [][SerialNext]_vars

\* The chat page with its New Chat button (login/page.tsx 401-404): as
\* SerialSpec, and clearSession may be called when no send is in flight; the
\* render that follows it is a step of its own, so a sendMessage called in
\* the same tick as clearSession runs on the callbacks of the render before.
ClearNext ==
  \/ \E c \in Texts, dt \in Elapsed : Idle /\ SendMessage(c, dt) /\ Fresh
  \/ \E t \in Turns, id \in HeaderIds : SessionIdEvent(t, id) /\ Fresh
  \/ \E t \in Turns : BeginBody(t) /\ Fresh
  \/ \E t \in Turns, c \in ThinkingContents : ThinkingEvent(t, c) /\ Fresh
  \/ \E t \in Turns : \E c \in ChunkContents(Len(turns[t].delivered) + 1) :
        ChunkEvent(t, c) /\ Fresh
  \/ \E t \in Turns : DoneEvent(t) /\ Fresh
  \/ \E t \in Turns : LoopExit(t) /\ Fresh
  \/ \E t \in Turns, st \in HttpStatuses : HttpError(t, st) /\ Fresh
  \/ \E t \in Turns, e \in ProtocolErrors : ProtocolError(t, e) /\ Fresh
  \/ \E t \in Turns : NetworkFailure(t) /\ Fresh
  \/ TimerFires /\ Fresh
  \/ Idle /\ ClearSession /\ Stale
  \/ Render

ClearSpec == Init /\ [][ClearNext]_vars

\* The session roster under any caller and any order of the responses.
Reloads == 1..Len(roster.reloads)

RosterNext ==
  \/ LoadSessionsSignedOut
  \/ \E forceRefresh \in BOOLEAN : LoadSessions(forceRefresh)
  \/ \E r \in Reloads, success \in BOOLEAN, list \in ServerRosters :
        SessionsResolve(r, success, list)
  \/ \E r \in Reloads : SessionsReject(r)
  \/ \E r \in Reloads, i \in 1..2, m \in FirstMessages : MessagesSettle(r, i, m)
  \/ \E id \in SessionIds, title \in NewTitles : UpdateSessionTitle(id, title)

RosterSpec == Init /\ [][RosterNext]_vars

\* One streamChat call against any response, read in any pieces, with a
\* consumer that may leave at any yield.
HeaderValues == { Undefined, NoId, "s1" }   \* absent, empty, a session id
\* content-type: SSE, JSON, something else, absent
ContentTypes == { "text/event-stream", "application/json", "text/html", "" }

StreamNext ==
  \/ StreamChat
  \/ FetchRejects
  \/ \E status \in ResponseStatuses, errorBody \in ErrorBodies,
        header \in HeaderValues, contentType \in ContentTypes,
        hasBody \in BOOLEAN, bytes \in Bodies :
        FetchResolves(status, errorBody, header, contentType, hasBody, bytes)
  \/ ResumeAfterSessionId
  \/ \E n \in 1..Len(stream.wire) : ReadChunk(n)
  \/ ResumeAfterEvent
  \/ ReadDone
  \/ ResumeAfterDone
  \/ ReadRejects
  \/ Return

StreamSpec == Init /\ [][StreamNext]_vars

\* The chat page loading sessions (login/page.tsx 357-361, useChatSession.ts
\* 136-140): a call for every session navigated to, the responses in any
\* order.
Loads == 1..Len(loading)

LoadNext ==
  \/ \E id \in LoadIds : LoadSession(id) /\ Fresh
  \/ \E k \in Loads, success \in BOOLEAN, title \in Titles :
        \E history \in Histories(loading[k].sessionId) :
          LoadResolves(k, success, history, title) /\ Fresh
  \/ \E k \in Loads : LoadRejects(k) /\ Fresh

LoadSpec == Init /\ [][LoadNext]_vars

\* Titles: the first message of a new chat sent to the engine, and one
\* reload of a roster whose session has no summary, so that its title is
\* made of the session's first message.
TitleRoster == << rosterSession("s1", Null) >>

TitleNext ==
  \/ \E content \in TitleTexts : turns = << >> /\ SendMessage(content, 0) /\ Fresh
  \/ roster.reloads = << >> /\ LoadSessions(FALSE)
  \/ \E r \in Reloads : SessionsResolve(r, TRUE, TitleRoster)
  \/ \E r \in Reloads, m \in TitleTexts \cup {Null} : MessagesSettle(r, 1, m)

TitleSpec == Init /\ [][TitleNext]_vars

\* Tool calls: turns one at a time whose thinking events name two tools,
\* one of them by two of the patterns, or no tool at all.
ToolContents ==
  { <<"Using", "tool:", "natal">>, <<"Using", "tool:", "dasha">>,
    <<"natal", "chart">>, <<"hm">> }

ToolNext ==
  \/ \E c \in Texts, dt \in Elapsed : Idle /\ SendMessage(c, dt) /\ Fresh
  \/ \E t \in Turns : BeginBody(t) /\ Fresh
  \/ \E t \in Turns, c \in ToolContents : ThinkingEvent(t, c) /\ Fresh
  \/ \E t \in Turns : \E c \in ChunkContents(Len(turns[t].delivered) + 1) :
        ChunkEvent(t, c) /\ Fresh
  \/ \E t \in Turns : DoneEvent(t) /\ Fresh
  \/ \E t \in Turns : LoopExit(t) /\ Fresh
  \/ TimerFires /\ Fresh

ToolSpec == Init /\ [][ToolNext]_vars

\* One pollProfileStatus call, as onboarding/page.tsx 74-95 makes it, with
\* any maxAttempts up to MaxAttempts.  Every getProfile call settles and
\* every interval elapses.
PollNext ==
  \/ \E maxAttempts \in 0..MaxAttempts : PollProfileStatus(maxAttempts)
  \/ \E result \in ProfileResults : ProfileResolves(result)
  \/ ProfileRejects
  \/ IntervalElapses

ProfileSettles == (\E result \in ProfileResults : ProfileResolves(result)) \/ ProfileRejects

PollSpec ==
  Init /\ [][PollNext]_vars /\ WF_vars(ProfileSettles) /\ WF_vars(IntervalElapses)

\* The chat page opened on a session (useChatSession.ts 136-140,
\* login/page.tsx 357-361, 391-399): loadSession is called once, and the
\* user, whom isLoadingSession does not keep from sending, sends while the
\* history is on its way or after it has come.
OpenNext ==
  \/ \E id \in LoadIds : loading = << >> /\ LoadSession(id) /\ Fresh
  \/ \E k \in Loads, success \in BOOLEAN, title \in Titles :
        \E history \in Histories(loading[k].sessionId) :
          LoadResolves(k, success, history, title) /\ Fresh
  \/ \E k \in Loads : LoadRejects(k) /\ Fresh
  \/ \E c \in Texts, dt \in Elapsed : Idle /\ SendMessage(c, dt) /\ Fresh
  \/ \E t \in Turns : BeginBody(t) /\ Fresh
  \/ \E t \in Turns : \E c \in ChunkContents(Len(turns[t].delivered) + 1) :
        ChunkEvent(t, c) /\ Fresh
  \/ \E t \in Turns : DoneEvent(t) /\ Fresh
  \/ \E t \in Turns : LoopExit(t) /\ Fresh
  \/ \E t \in Turns : NetworkFailure(t) /\ Fresh

OpenSpec == Init /\ [][OpenNext]_vars

\* The New Chat button pressed at any time (login/page.tsx 401-404 has no
\* guard): as SerialSpec, and clearSession may be called while a send is in
\* flight.
AbandonNext ==
  \/ \E c \in Texts, dt \in Elapsed : Idle /\ SendMessage(c, dt) /\ Fresh
  \/ \E t \in Turns, id \in NextHeaderIds : SessionIdEvent(t, id) /\ Fresh
  \/ \E t \in Turns : BeginBody(t) /\ Fresh
  \/ \E t \in Turns : \E c \in ChunkContents(Len(turns[t].delivered) + 1) :
        ChunkEvent(t, c) /\ Fresh
  \/ \E t \in Turns : DoneEvent(t) /\ Fresh
  \/ \E t \in Turns : LoopExit(t) /\ Fresh
  \/ \E t \in Turns : NetworkFailure(t) /\ Fresh
  \/ ClearSession /\ Fresh

AbandonSpec == Init /\ [][AbandonNext]_vars

\* The chat page moving between stored sessions (login/page.tsx 357-367):
\* loadSession for every session navigated to, each answered with that
\* session's history and its own title or none, the title effect after the
\* renders, and one load of the roster.  The user navigates on once the
\* session shown has settled: its load has ended and the effect has run.
TitlesOf(sessionId) == { EmptyStr, <<"title of ", sessionId>> }

PageSettled ==
  /\ \A k \in Loads : ~Loading(k)
  /\ page.titleDeps = << currentSessionId, sessionTitle >>

NavNext ==
  \/ \E id \in LoadIds : PageSettled /\ LoadSession(id) /\ Fresh
  \/ \E k \in Loads, success \in BOOLEAN :
        \E history \in Histories(loading[k].sessionId),
           title \in TitlesOf(loading[k].sessionId) :
          LoadResolves(k, success, history, title) /\ Fresh
  \/ \E k \in Loads : LoadRejects(k) /\ Fresh
  \/ TitleEffect
  \/ roster.reloads = << >> /\ LoadSessions(FALSE)
  \/ \E r \in Reloads, list \in ServerRosters : SessionsResolve(r, TRUE, list)
  \/ \E r \in Reloads, i \in 1..2, m \in FirstMessages : MessagesSettle(r, i, m)

NavSpec == Init /\ [][NavNext]_vars

\* ---------------------------------------------------------------- claims
Contains(s, sub) ==
  \E i \in 1..(Len(s) - Len(sub) + 1) : SubSeq(s, i, i + Len(sub) - 1) = sub

LastTurn == turns[Len(turns)]

\* The latest turn is over and nothing was called since.
TurnOver == turns # << >> /\ Idle

\* The latest turn ended with done / threw.
TurnEnded == TurnOver /\ LastTurn.thrown = Null
TurnThrew == TurnOver /\ LastTurn.thrown # Null

\* C1: at most one send is in flight per engine instance, for every
\* interleaving of calls: a sendMessage called while an earlier one has not
\* finished appends nothing and opens no request.
C1_OneSendInFlight == Cardinality({ t \in Turns : InFlight(t) }) <= 1

\* C2: at most one message has status 'streaming', and when one does it is
\* the last element of the list, also after a stream error and after a turn
\* has ended.
C2_StreamingIsLast ==
  \A i \in 1..Len(messages) :
    messages[i].status = "streaming" => i = Len(messages)

\* C3: once a turn is over (its stream ended or threw), isStreaming and
\* isThinking are both false: on the success path, the no-content path and
\* every exception path.
C3_StreamingExited == TurnOver => (~isStreaming /\ ~isThinking)

C3_Witness ==
  /\ Len(turns) = 2 /\ TurnThrew /\ turns[1].thrown = Null
  /\ ~isStreaming /\ ~isThinking

\* C4: a turn whose stream delivered the chunks c1..cn (n >= 1) and ended
\* has added exactly one assistant message, directly after the turn's user
\* message, with content c1+...+cn in delivery order and status 'complete'.
C4_ChunksConcatenated ==
  (TurnEnded /\ LastTurn.delivered # EmptyStr) =>
     LET k == LastTurn.userIndex
     IN /\ Len(messages) = k + 1
        /\ messages[k].role = "user"
        /\ messages[k].displayId = LastTurn.userDisplayId
        /\ messages[k + 1].role = "assistant"
        /\ messages[k + 1].content = LastTurn.delivered
        /\ messages[k + 1].status = "complete"

C4_Witness ==
  /\ TurnEnded /\ Len(LastTurn.delivered) >= 2
  /\ messages[Len(messages)].content = <<"a", "b">>

\* C5: if the stream throws after at least one chunk has been applied, the
\* turn's in-progress assistant message ends with status 'error' and keeps
\* the content already appended to it.
C5_PartialMarkedError ==
  (TurnThrew /\ LastTurn.delivered # EmptyStr) =>
     LET k == LastTurn.userIndex
     IN /\ Len(messages) >= k + 1
        /\ messages[k + 1].role = "assistant"
        /\ messages[k + 1].content = LastTurn.delivered
        /\ messages[k + 1].status = "error"

\* C6: whenever the stream throws during a turn, the turn's user message
\* ends with status 'error', exactly one synthetic assistant message with
\* status 'error' and content containing the error's message is appended as
\* the last element, and the error field is that message; for an HTTP 409
\* the message contains 'onboarding'.
C6_ThrowHandled ==
  TurnThrew =>
     LET k == LastTurn.userIndex
         n == Len(messages)
     IN /\ n = k + 1 + (IF LastTurn.delivered # EmptyStr THEN 1 ELSE 0)
        /\ messages[k].role = "user"
        /\ messages[k].displayId = LastTurn.userDisplayId
        /\ messages[k].status = "error"
        /\ messages[n].role = "assistant"
        /\ messages[n].status = "error"
        /\ Contains(messages[n].content, LastTurn.thrown)
        /\ error = LastTurn.thrown
        /\ LastTurn.status = 409 => Contains(error, <<"onboarding">>)

C6_Witness ==
  /\ TurnThrew /\ LastTurn.status = 409
  /\ Contains(messages[Len(messages)].content, <<"onboarding">>)

\* C7: if a turn's stream ends without any chunk event, exactly one
\* synthetic assistant message (the apology, status 'error') is appended
\* and the turn's user message ends with status 'complete'; if a chunk was
\* delivered, no synthetic message is appended.
C7_ApologyWhenNoChunk ==
  TurnEnded =>
     LET k == LastTurn.userIndex
     IN /\ Len(messages) = k + 1
        /\ messages[k].displayId = LastTurn.userDisplayId
        /\ IF LastTurn.delivered = EmptyStr
           THEN /\ messages[k].status = "complete"
                /\ messages[k + 1].role = "assistant"
                /\ messages[k + 1].content = ApologyText
                /\ messages[k + 1].status = "error"
           ELSE /\ messages[k + 1].content # ApologyText
                /\ messages[k + 1].status # "error"

C7_Witness ==
  /\ TurnEnded /\ LastTurn.delivered = EmptyStr
  /\ messages[Len(messages)].content = ApologyText

\* The step in which turn t consumes a session-id event.
ConsumesSessionId(t) ==
  turns[t].pc = "fetch" /\ turns'[t].pc = "headers"

\* The step of a sendMessage call that passes its guard.
Sends == Len(turns') = Len(turns) + 1

\* C8: consuming a session-id event carrying S sets the current session id
\* to S whatever it held before, and the next sendMessage transmits S as
\* its sessionId.
C8_SessionIdAdopted ==
  [][ /\ \A t \in Turns :
           ConsumesSessionId(t) => currentSessionId' = turns'[t].sidSeen
      /\ Sends => turns'[Len(turns')].sessionId = currentSessionId ]_vars

C8_Witness ==
  /\ Len(turns) = 2
  /\ turns[2].sessionId \in HeaderIds
  /\ turns[2].sidSeen \in HeaderIds \ {turns[2].sessionId}
  /\ currentSessionId = turns[2].sidSeen

\* C9: once a session-id event carrying S has been consumed in a turn, every
\* message the engine creates later in that turn has sessionId S.
C9_LaterMessagesTagged ==
  \A t \in Turns :
    (InFlight(t) /\ turns[t].sidSeen # Undefined) =>
       \A i \in (turns[t].userIndex + 1)..Len(messages) :
         messages[i].sessionId = turns[t].sidSeen

\* A sendMessage call with empty or whitespace-only text.
BlankSend == \E c \in Texts : trim(c) = EmptyStr /\ SendMessage(c, 0)

\* C10: sendMessage with empty or whitespace-only text changes nothing: the
\* message list, isStreaming, isThinking, session id, title, tool calls and
\* error are unchanged and no request is issued.
C10_BlankSendIsNoop ==
  [][ BlankSend =>
        UNCHANGED << messages, isStreaming, isThinking, currentSessionId,
                     sessionTitle, activeTools, error, turns >> ]_vars

C10_Witness == blankSeen /\ messages # << >> /\ error # Null

\* The latest sendMessage call has just passed its guard, and it found the
\* message list emptied after an earlier turn: under ClearSpec only
\* clearSession empties the list, and with no send in flight nothing but a
\* render or a timer can come between it and the call.
SentAfterClear ==
  /\ Len(turns) > 1
  /\ LastTurn.pc = "fetch"
  /\ LastTurn.userIndex = 1

\* What sendMessage(t) leaves on an engine created without initial session.
FirstSendOfFreshEngine(t, time) ==
  /\ LastTurn.sessionId = Undefined
  /\ sessionTitle = generateSessionTitle(t)
  /\ messages = << [ role      |-> "user",
                     content   |-> t,
                     status    |-> "sending",
                     displayId |-> <<"user", time>>,
                     sessionId |-> NoId ] >>
  /\ activeTools = << >>
  /\ error = Null

\* C11: with no send in flight, clearSession() followed by sendMessage(t)
\* behaves as sendMessage(t) on a fresh engine without initial session: the
\* request carries no sessionId, the title is derived from t, the list holds
\* only the new user message, tool calls and error are empty; also when the
\* two calls are made back-to-back.
C11_ClearThenSendIsFresh ==
  SentAfterClear => FirstSendOfFreshEngine(LastTurn.content, now)

\* Reload r was still in flight when a later reload started.
Superseded(r) == \E n \in Reloads : r \in roster.reloads[n].overlapped

\* C12: a reload started while an earlier one is in flight supersedes it:
\* whatever the order of the responses, the superseded reload never writes
\* the roster and never surfaces an error.
C12_SupersededIsDiscarded ==
  \A r \in Reloads : Superseded(r) => ~roster.reloads[r].surfaced

\* C13: no two reload operations that overlap in time both write
\* title-cache entries.
C13_OneCacheWriter ==
  \A n \in Reloads : \A r \in roster.reloads[n].overlapped :
    ~(roster.reloads[r].stored /\ roster.reloads[n].stored)

\* The step in which reload r receives the roster and maps its sessions.
ReadsRoster(r) ==
  /\ roster.reloads[r].pc = "sessions"
  /\ roster'.reloads[r].list # << >>

\* In that step, every session with a cached title is given that title
\* and no message fetch.
ReportsCached(r) ==
  LET list == roster'.reloads[r].list
  IN \A i \in 1..Len(list) :
       isCached(roster.titleCache[list[i].id]) =>
         /\ roster'.reloads[r].titles[i] = roster.titleCache[list[i].id]
         /\ i \notin roster'.reloads[r].pending

\* A message fetch issued before the title was cached reports the cached
\* title when it settles.
FetchReportsCached ==
  \A r \in Reloads : \A i \in roster.reloads[r].pending :
    LET id == roster.reloads[r].list[i].id
    IN (i \notin roster'.reloads[r].pending /\ isCached(roster.titleCache[id])) =>
          roster'.reloads[r].titles[i] = roster.titleCache[id]

\* The cached title of id is replaced in this step.
Recached(id) ==
  isCached(roster.titleCache[id]) /\ roster'.titleCache[id] # roster.titleCache[id]

Updates(id) == \E title \in NewTitles : UpdateSessionTitle(id, title)

\* C14 as stated: once a title is cached for a session id, every later
\* reload reports exactly that title for the session, whatever the server
\* returns, and issues no message fetch for it, until updateSessionTitle is
\* called for that id.
C14_CachedTitleSticks ==
  [][ /\ \A r \in Reloads : ReadsRoster(r) => ReportsCached(r)
      /\ FetchReportsCached
      /\ \A id \in SessionIds : Recached(id) => Updates(id) ]_vars

\* C14, amended: the same for every reload called without forceRefresh; the
\* cached title is replaced only by updateSessionTitle or by a reload called
\* with forceRefresh, which stores the server's summary.
C14_CachedTitleSticksUnlessForced ==
  [][ /\ \A r \in Reloads :
           (ReadsRoster(r) /\ ~roster.reloads[r].forceRefresh) => ReportsCached(r)
      /\ FetchReportsCached
      /\ \A id \in SessionIds :
           Recached(id) =>
             \/ Updates(id)
             \/ \E r \in Reloads :
                  /\ ReadsRoster(r) /\ roster.reloads[r].forceRefresh
                  /\ \E i \in 1..Len(roster'.reloads[r].list) :
                       /\ roster'.reloads[r].list[i].id = id
                       /\ roster'.titleCache[id] = roster'.reloads[r].list[i].summary ]_vars

\* A reload without forceRefresh has reported a cached title that is not
\* the summary the server returned.
C14_Witness ==
  \E r \in Reloads :
    /\ roster.reloads[r].pc = "settled" /\ ~roster.reloads[r].forceRefresh
    /\ \E i \in 1..Len(roster.reloads[r].list) :
         /\ usableSummary(roster.reloads[r].list[i].summary)
         /\ roster.reloads[r].titles[i] # roster.reloads[r].list[i].summary
         /\ roster.sessions[i].displayTitle = roster.reloads[r].titles[i]

\* The streamChat call is over: it returned, threw, or was abandoned.
Exited == stream.pc \in {"returned", "thrown", "abandoned"}

\* C15: the response-body reader acquired by streamChat is released on
\* every exit path: normal end of stream, an error thrown while reading, and
\* the consumer abandoning iteration before the end.  Released: the body the
\* reader is attached to is no longer open.
C15_ReaderReleased == Exited => stream.body # "open"

\* The chunk and thinking events among the events handed over.
DataEvents(events) ==
  SelectSeq(events, LAMBDA e : e.type \in {"chunk", "thinking"})

\* C16: for every split of a valid SSE frame's bytes into successive
\* chunks, also inside a multi-byte character, the JSON payload or the
\* blank-line delimiter, the pipeline yields exactly the events of the
\* unsplit frame.
C16_SplitInvariant ==
  (stream.pc \in {"atDone", "returned"} /\ stream.sent \in ValidFrames) =>
     DataEvents(stream.events) = feed(<< >>, stream.sent).events

CountOf(events, type) ==
  Cardinality({ i \in 1..Len(events) : events[i].type = type })

\* C17: when the read loop reaches end of stream, exactly one done event is
\* yielded and it is the last event, also when no data event was received;
\* when streamChat throws, no done event is yielded.
C17_DoneIsLast ==
  /\ CountOf(stream.events, "done") <= 1
  /\ CountOf(stream.events, "done") = 1 =>
       stream.events[Len(stream.events)].type = "done"
  /\ stream.pc \in {"atDone", "returned"} => CountOf(stream.events, "done") = 1
  /\ stream.pc \in {"read", "atEvent", "thrown"} => CountOf(stream.events, "done") = 0

C17_Witness ==
  /\ stream.pc = "returned" /\ stream.body = "closed"
  /\ stream.events = << [ type |-> "done" ] >>

\* The response arrived with a success status and the generator has gone
\* past the header.
PastHeader == responseOk(stream.status) /\ stream.pc \notin {"idle", "fetch"}

NotOkSeen == stream.status # 0 /\ ~(stream.status \in 200..299)

\* C19: on every non-success HTTP status, streamChat throws before yielding
\* any event.
C19_ThrowsBeforeEvents ==
  /\ NotOkSeen => (stream.pc = "thrown" /\ stream.events = << >>)
  /\ (stream.pc = "thrown" /\ stream.thrown.statusCode # 0) => stream.events = << >>

C19_Witness ==
  stream.pc = "thrown" /\ stream.status = 500 /\ stream.thrown.statusCode = 500

\* The kind the specification gives a status code.
kindOfStatus(status) ==
  IF status = 403 THEN "FORBIDDEN"
  ELSE IF status = 409 THEN "USER_NOT_READY"
  ELSE IF status = 429 THEN "RATE_LIMIT_EXCEEDED"
  ELSE IF status = 401 THEN "UNAUTHORIZED"
  ELSE "API_ERROR"

\* C20: a non-success response is classified by its status code: 403
\* FORBIDDEN, 409 USER_NOT_READY, 429 RATE_LIMIT_EXCEEDED, 401 UNAUTHORIZED,
\* every other status API_ERROR; the error carries the original status code
\* and a non-empty message.
C20_ClassifiedByStatus ==
  NotOkSeen =>
    /\ stream.thrown.code = kindOfStatus(stream.status)
    /\ stream.thrown.statusCode = stream.status
    /\ stream.thrown.message # EmptyStr

\* The response is a successful one that is no stream: its content type is
\* neither SSE nor JSON, or it has no body.
NotAStream ==
  /\ PastHeader
  /\ \/ stream.contentType \notin {"text/event-stream", "application/json"}
     \/ ~stream.hasBody

\* C21: a successful response whose content-type is neither
\* text/event-stream nor JSON, or that has no body, makes streamChat throw
\* (as soon as the consumer lets it run past the session-id event); it never
\* produces a chunk, thinking or done event.
C21_NotAStreamThrows ==
  NotAStream =>
    /\ stream.pc \in {"atSessionId", "abandoned", "thrown"}
    /\ stream.pc = "thrown" => stream.thrown.code = "Error"
    /\ \A i \in 1..Len(stream.events) : stream.events[i].type = "session-id"

C21_Witness ==
  /\ NotAStream /\ stream.pc = "thrown"
  /\ stream.contentType = "text/event-stream" /\ ~stream.hasBody
  /\ stream.events = << [ type |-> "session-id", sessionId |-> "s1" ] >>

\* C22: a record whose payload is blank, is the literal [DONE], or is not
\* valid JSON yields no event and never ends the stream: the well-formed
\* record after it still yields its event, the stream still ends with
\* done, and nothing but a failed read makes streamChat throw.
C22_SkippedRecordsSkipped ==
  /\ (stream.sent \in SkippedThenFrame /\ stream.pc \in {"atDone", "returned"}) =>
        /\ DataEvents(stream.events) = << [ type |-> "chunk", content |-> <<"h">> ] >>
        /\ stream.events[Len(stream.events)].type = "done"
  /\ (stream.sent \in SkippedRecords /\ stream.pc \in {"atDone", "returned"}) =>
        DataEvents(stream.events) = << >>
  /\ (stream.pc = "thrown" /\ stream.body # "none") =>
        stream.thrown = plainError("TypeError", NetworkError)

C22_Witness ==
  /\ stream.sent \in SkippedThenFrame /\ stream.pc = "returned"
  /\ stream.sent[3] = "{"
  /\ Len(DataEvents(stream.events)) = 1

\* The event the specification gives a payload: text-delta with a delta or
\* text field gives chunk, delta preferred; else reasoning-delta with a
\* delta gives thinking; else an untyped payload with a content field gives
\* chunk; every other payload gives nothing.
eventOfPayload(data) ==
  IF data.type = "text-delta" /\ (data.delta # EmptyStr \/ data.text # EmptyStr)
  THEN << [ type |-> "chunk",
            content |-> IF data.delta # EmptyStr THEN data.delta ELSE data.text ] >>
  ELSE IF data.type = "reasoning-delta" /\ data.delta # EmptyStr
  THEN << [ type |-> "thinking", content |-> data.delta ] >>
  ELSE IF data.type = "" /\ data.content # EmptyStr
  THEN << [ type |-> "chunk", content |-> data.content ] >>
  ELSE << >>

\* C23: each SSE record yields zero or one event, chosen by the precedence
\* of eventOfPayload; in particular a payload with an unrecognized type
\* yields no event.
C23_EventByPrecedence ==
  \A kind \in PayloadKinds :
    (stream.sent = frame(kind, <<"h">>) /\ stream.pc \in {"atDone", "returned"}) =>
       DataEvents(stream.events) = eventOfPayload(parsed(kind, <<"h">>))

\* A step in which a thinking event is consumed.
ConsumesThinking ==
  \E t \in Turns, c \in ThinkingContents : ThinkingEvent(t, c)

\* C24: consuming a thinking event never adds, removes or modifies a
\* message: the message list is unchanged, isThinking is true afterwards,
\* and of the rest of the engine's state only the tool-call list may change.
C24_ThinkingKeepsMessages ==
  [][ ConsumesThinking =>
        /\ messages' = messages
        /\ isThinking'
        /\ UNCHANGED << isStreaming, currentSessionId, sessionTitle,
                        isLoadingSession, error >> ]_vars

\* A thinking event was consumed before any chunk: the turn still has no
\* assistant message.
C24_Witness ==
  \E t \in Turns :
    /\ turns[t].pc = "body" /\ turns[t].nEvents >= 1
    /\ ~turns[t].hasReceivedResponse
    /\ isThinking /\ activeTools # << >>
    /\ Len(messages) = turns[t].userIndex

\* The stream request of turn t is not yet answered: no event of it has
\* been handled.
JustSent(t) == InFlight(t) /\ turns[t].pc = "fetch"

\* C29: a sendMessage that passes its guard appends exactly one user
\* message (trimmed text, status 'sending', last element of the list)
\* before the stream request is opened and before any stream event is
\* handled, and it clears the error field and the tool-call list.
C29_OptimisticInsert ==
  \A t \in Turns :
    JustSent(t) =>
      /\ Len(messages) = turns[t].userIndex
      /\ messages[Len(messages)].role = "user"
      /\ messages[Len(messages)].status = "sending"
      /\ messages[Len(messages)].content = turns[t].content
      /\ trim(turns[t].content) = turns[t].content /\ turns[t].content # EmptyStr
      /\ error = Null
      /\ activeTools = << >>

\* The second send, made after a turn that failed and left an error.
C29_Witness ==
  /\ Len(turns) = 2 /\ JustSent(2)
  /\ turns[1].thrown # Null
  /\ Len(messages) = 3

\* Call k of loadSession finishes in this step.
Finishes(k) == loading[k].pc = "fetch" /\ loading'[k].pc = "settled"

\* The message list is the fetched history, every message complete.
IsHistory(list, history) ==
  /\ Len(list) = Len(history)
  /\ \A i \in 1..Len(list) :
        /\ list[i].role = history[i].role
        /\ list[i].content = history[i].content
        /\ list[i].status = "complete"

\* C25: loadSession(id), when the history fetch succeeds, replaces the
\* whole message list with the fetched history, every message in status
\* 'complete', and sets the current session id to id; when the fetch
\* throws, the message list and session id are unchanged and the error
\* field is set; in both cases isLoadingSession is false once the call has
\* finished.
C25_LoadReplacesHistory ==
  [][ \A k \in Loads :
        Finishes(k) =>
          /\ ~isLoadingSession'
          /\ loading'[k].outcome = "applied" =>
                /\ IsHistory(messages', loading'[k].history)
                /\ currentSessionId' = loading[k].sessionId
          /\ loading'[k].outcome = "threw" =>
                /\ UNCHANGED << messages, currentSessionId >>
                /\ error' # Null ]_vars

\* A history was loaded over the messages of another session, and a later
\* call threw without touching them.
C25_Witness ==
  /\ Len(loading) = 2
  /\ loading[1].outcome = "applied" /\ loading[1].history # << >>
  /\ loading[2].outcome = "threw" /\ loading[2].sessionId # loading[1].sessionId
  /\ IsHistory(messages, loading[1].history)
  /\ currentSessionId = loading[1].sessionId
  /\ error # Null /\ ~isLoadingSession

\* Every loadSession call has finished and some response was applied.
LoadsSettled ==
  /\ \A k \in Loads : loading[k].pc = "settled"
  /\ \E k \in Loads : loading[k].applied > 0

LastApplied ==
  CHOOSE k \in Loads :
    loading[k].applied > 0 /\ \A j \in Loads : loading[j].applied <= loading[k].applied

\* C28: with loadSession calls overlapping in time, the last applied
\* response wins as a whole: after all calls settle, the message list and
\* the current session id both come from the call whose response was
\* applied last.
C28_LastAppliedWins ==
  LoadsSettled =>
    /\ IsHistory(messages, loading[LastApplied].history)
    /\ \A i \in 1..Len(messages) : messages[i].sessionId = loading[LastApplied].sessionId
    /\ currentSessionId = loading[LastApplied].sessionId

\* Two overlapping calls for different sessions, the first one answered
\* last.
C28_Witness ==
  /\ Len(loading) = 2 /\ LoadsSettled
  /\ loading[1].sessionId # loading[2].sessionId
  /\ loading[1].applied = 2 /\ loading[2].applied = 1
  /\ currentSessionId = loading[1].sessionId
  /\ messages # << >>

\* C26: for a session with no cached title (none at the moment the title
\* is derived), a reload derives displayTitle in this order: the server
\* summary when it is non-blank and not 'New Chat'; otherwise the heuristic
\* title of the session's first user message; otherwise 'Chat ' plus the
\* createdAt date, also when the message fetch fails; and it stores the
\* result in the title cache.
C26_TitleDerivation ==
  [][ \A r \in Reloads :
        /\ ReadsRoster(r) =>
              \A i \in 1..Len(roster'.reloads[r].list) :
                LET session == roster'.reloads[r].list[i]
                IN ~isCached(roster.titleCache[session.id]) =>
                     IF usableSummary(session.summary)
                     THEN /\ roster'.reloads[r].titles[i] = session.summary
                          /\ roster'.titleCache[session.id] = session.summary
                     ELSE i \in roster'.reloads[r].pending
        /\ \A i \in roster.reloads[r].pending, m \in FirstMessages :
              LET session == roster.reloads[r].list[i]
              IN (MessagesSettle(r, i, m) /\ ~isCached(roster.titleCache[session.id])) =>
                   /\ roster'.reloads[r].titles[i] =
                        IF titleOfMessage(m) # EmptyStr THEN titleOfMessage(m)
                        ELSE <<"Chat ", session.createdAt>>
                   /\ roster'.titleCache[session.id] = roster'.reloads[r].titles[i] ]_vars

\* A reload has shown and stored the date title of a session with no
\* summary and no first message.
C26_Witness ==
  \E r \in Reloads :
    /\ roster.reloads[r].pc = "settled" /\ Len(roster.reloads[r].list) = 2
    /\ roster.reloads[r].titles = << <<"Chat ", "1/1/2026">>, <<"B">> >>
    /\ roster.titleCache["s1"] = <<"Chat ", "1/1/2026">>
    /\ roster.titleCache["s2"] = <<"B">>
    /\ Len(roster.sessions) = 2
    /\ roster.sessions[1].displayTitle = <<"Chat ", "1/1/2026">>

\* The words of a text: its runs of word characters.
wordsOf(text) ==
  SelectSeq(splitWords(trim(stripPunctuation(text)), << >>, << >>),
            LAMBDA w : Len(w) > 0)

capitalized(word) == << toUpperCase(Head(word)) >> \o Tail(word)

\* The heuristic title as stated: the first 6 words, each capitalized as in
\* 'What Does Saturn In My 10th', and the ellipsis exactly when the message
\* has more than 6 words.
statedRosterTitle(message) ==
  LET all   == wordsOf(message)
      first == SubSeq(all, 1, IF Len(all) < 6 THEN Len(all) ELSE 6)
  IN joinWords([ i \in 1..Len(first) |-> capitalized(first[i]) ])
       \o (IF Len(all) > 6 THEN <<"...">> ELSE << >>)

\* C27: the roster's heuristic title of a message is its first 6 words
\* after punctuation is stripped, capitalized, with an ellipsis appended
\* exactly when the message has more than 6 words; for 'What does Saturn in
\* my 10th house mean?' it is 'What Does Saturn In My 10th' followed by the
\* ellipsis.
C27_RosterHeuristic ==
  [][ \A r \in Reloads, m \in TitleTexts :
        ( /\ MessagesSettle(r, 1, m)
          /\ ~isCached(roster.titleCache[roster.reloads[r].list[1].id])
          /\ wordsOf(m) # << >> ) =>
            roster'.reloads[r].titles[1] = statedRosterTitle(m) ]_vars

\* The first message of a fresh session (no session id, empty list) has
\* been sent.
FirstOfFresh ==
  /\ Len(turns) = 1
  /\ turns[1].sessionId = Undefined /\ turns[1].userIndex = 1

\* C30: for every first message of a fresh session whose text has at most
\* 6 words, the provisional session title is exactly those words,
\* punctuation stripped and first letter capitalized, with no ellipsis
\* appended.
C30_ShortTitleIsWhole ==
  (FirstOfFresh /\ Len(wordsOf(turns[1].content)) \in 1..6) =>
     sessionTitle = capitalized(joinWords(wordsOf(turns[1].content)))


\* The names of a tool-call list, in order.
toolNames(tools) == [ i \in 1..Len(tools) |-> tools[i].name ]

NoRepeat(s) == \A i, j \in 1..Len(s) : s[i] = s[j] => i = j

\* C31: within a turn no two tool calls of currentTools have the same name;
\* whatever thinking event comes next, the tool calls already listed stay
\* as they are (a completed one stays completed) and at most one is added,
\* in status 'running', exactly when the event names a tool not yet
\* listed; and a chunk event leaves every tool call 'completed', names
\* unchanged.
C31_ToolCallsOncePerName ==
  \A t \in Turns :
    LET tools == turns[t].currentTools
    IN /\ NoRepeat(toolNames(tools))
       /\ \A i \in 1..Len(tools) : tools[i].status \in { "running", "completed" }
       /\ \A c \in ToolContents :
            LET after == toolsAfterThinking(tools, c)
                named == toolMatch(c)
                isNew == named # Undefined
                         /\ \A i \in 1..Len(tools) : tools[i].name # named
            IN /\ SubSeq(after, 1, Len(tools)) = tools
               /\ Len(after) = Len(tools) + (IF isNew THEN 1 ELSE 0)
               /\ isNew => after[Len(after)] = [ name |-> named, status |-> "running" ]
       /\ toolNames(completeTools(tools)) = toolNames(tools)
       /\ \A i \in 1..Len(tools) : completeTools(tools)[i].status = "completed"

\* A turn that heard of natal, then got a chunk: natal is completed, and a
\* thinking event may name it again.
C31_Witness ==
  \E t \in Turns :
    /\ turns[t].currentTools = << [ name |-> "natal", status |-> "completed" ] >>
    /\ turns[t].nEvents = 2

\* A turn that was told of two tools.
C31_WitnessTwo ==
  \E t \in Turns : Len(turns[t].currentTools) = 2

\* read() reports the end of the body while the buffer holds a remainder
EndsWithRemainder ==
  /\ stream.pc = "read" /\ stream.body = "open" /\ stream'.body = "closed"
  /\ stream.buffer # << >>

\* C32: when the body ends with a non-empty remainder in the buffer, the
\* only event yielded is done: the events handed over so far get done
\* appended and nothing else, and nothing is left to be yielded.
C32_RemainderDiscarded ==
  [][ EndsWithRemainder =>
        /\ stream'.events = Append(stream.events, [ type |-> "done" ])
        /\ stream'.pc = "atDone" /\ stream'.toYield = << >>
        /\ stream'.buffer = stream.buffer ]_vars

\* The stream ended on {t i} without a blank line, which would have been a
\* chunk event had it been terminated; done was yielded.
C32_Witness ==
  /\ stream.pc \in { "atDone", "returned" } /\ stream.body = "closed"
  /\ stream.buffer = <<"da", "ta: ", "{", "t", "i", "}">>
  /\ eventsOfLine(stream.buffer) = << [ type |-> "chunk", content |-> <<"i">> ] >>
  /\ stream.events[Len(stream.events)] = [ type |-> "done" ]
  /\ \A i \in 1..Len(stream.events) :
       stream.events[i].type = "chunk" => stream.events[i].content # <<"i">>

\* getProfile resolved with a status that ends the polling
Terminal(result) == result.success /\ result.status \in { "completed", "failed" }

PollEnded == poll.pc \in { "returned", "thrown" }

\* What holds of a pollProfileStatus call at any moment.
PollAsStated ==
  LET n == Len(poll.results)
  IN /\ n <= poll.maxAttempts
     /\ \A k \in 1..n : Terminal(poll.results[k]) => k = n /\ PollEnded
     /\ poll.pc = "returned" =>
          n > 0 /\ poll.results[n] = [ success |-> TRUE, status |-> "completed" ]
     /\ (n > 0 /\ poll.results[n] = [ success |-> TRUE, status |-> "completed" ]) =>
          poll.pc = "returned"
     /\ (n > 0 /\ poll.results[n] = [ success |-> TRUE, status |-> "failed" ]) =>
          poll.pc = "thrown" /\ poll.thrown = <<"Onboarding failed. Please try again.">>
     /\ (poll.pc = "thrown" /\ ~poll.rejected
         /\ ~(n > 0 /\ Terminal(poll.results[n]))) =>
          n = poll.maxAttempts /\ poll.thrown = <<"Onboarding polling timeout">>
     /\ (poll.pc \in { "getProfile", "sleep" } /\ n = poll.maxAttempts) =>
          poll.pc = "sleep"

\* C33: a pollProfileStatus call makes at most maxAttempts getProfile
\* calls, returns at the first one reporting 'completed', throws at the
\* first one reporting 'failed', throws the timeout error after maxAttempts
\* calls reporting neither, and, every getProfile call settling, always
\* ends.
C33_PollTerminates ==
  /\ []PollAsStated
  /\ (poll.pc \in { "getProfile", "sleep" }) ~> PollEnded

\* The timeout was thrown after MaxAttempts calls, none of which ended
\* the polling.
C33_Witness ==
  /\ poll.pc = "thrown" /\ poll.thrown = <<"Onboarding polling timeout">>
  /\ poll.maxAttempts = MaxAttempts /\ Len(poll.results) = MaxAttempts

\* The call returned at its second getProfile call.
C33_WitnessReturned ==
  /\ poll.pc = "returned" /\ Len(poll.results) = 2 /\ poll.maxAttempts > 2

Settled(message) == message.status \in { "complete", "error" }

\* C34: whenever isStreaming is false, every message of the list has status
\* 'complete' or 'error', none 'sending' or 'streaming'; also after a turn
\* that streamed a normal assistant reply.
C34_NoTransientWhenIdle ==
  ~isStreaming => \A i \in 1..Len(messages) : Settled(messages[i])

\* The case the claim names: the last turn streamed a reply and ended
\* without an error.
C34_AfterNormalReply ==
  (TurnEnded /\ ~isStreaming /\ LastTurn.delivered # << >>) =>
    \A i \in 1..Len(messages) : Settled(messages[i])

\* The step is a chunk event of turn t.
ConsumesChunk(t) ==
  /\ t \in Turns /\ InFlight(t) /\ Len(turns') = Len(turns)
  /\ turns'[t].delivered # turns[t].delivered

\* The message came with a loaded history.
IsLoaded(message) == message.displayId[1] = "m"

\* C35: a chunk event leaves every message that was loaded from history,
\* and every message already in status 'complete' or 'error', as it is:
\* same place, same content, same status; also when loadSession completed
\* while the turn was streaming.
C35_ChunksTouchOwnMessage ==
  [][ \A t \in Turns : ConsumesChunk(t) =>
        \A i \in 1..Len(messages) :
          (IsLoaded(messages[i]) \/ Settled(messages[i])) =>
            i <= Len(messages') /\ messages'[i] = messages[i] ]_vars

\* Turn t is in flight on a cleared engine: sendMessage appends the user
\* message before its first await, so under AbandonSpec the list of an
\* engine with a send in flight is empty only after clearSession.
Abandoned(t) ==
  /\ InFlight(t) /\ messages = << >>
  /\ currentSessionId = Undefined /\ error = Null

\* The step belongs to turn t: an event of its stream, its end or its throw.
StepOf(t) == Len(turns') = Len(turns) /\ turns'[t] # turns[t]

\* C36: after clearSession was called while a send was in flight, what the
\* abandoned stream still delivers (session-id, chunk, done, error) adds no
\* message to the cleared list, sets no session id and sets no error.
C36_ClearedForGood ==
  [][ \A t \in Turns : (Abandoned(t) /\ StepOf(t)) =>
        /\ messages' = << >>
        /\ currentSessionId' = Undefined
        /\ error' = Null ]_vars

\* Each effect on its own: messages, session id, error field.
C36_NoMessageAdded ==
  [][ \A t \in Turns : (Abandoned(t) /\ StepOf(t)) => messages' = << >> ]_vars
C36_NoSessionIdSet ==
  [][ \A t \in Turns : (Abandoned(t) /\ StepOf(t)) => currentSessionId' = Undefined ]_vars
C36_NoErrorSet ==
  [][ \A t \in Turns : (Abandoned(t) /\ StepOf(t)) => error' = Null ]_vars

\* The step is the firing of a delayed clearing.  With turns sent one at a
\* time, a clearing still pending while a turn is in flight was scheduled
\* at the end of an earlier turn.
ClearingFires == timers' < timers

\* C37: the delayed clearing scheduled at the end of a turn does not remove
\* the tool calls a later turn has registered: when it fires while a turn
\* is in flight whose tool calls are shown, they are still shown afterwards.
C37_ClearingSparesNewTurn ==
  [][ ClearingFires =>
        \A t \in Turns :
          (InFlight(t) /\ turns[t].currentTools # << >>
           /\ activeTools = turns[t].currentTools) =>
            activeTools' = activeTools ]_vars

ReloadsSettled == \A r \in Reloads : ~ReloadInFlight(r)

\* Every roster entry shows what the title cache holds for its session.
RosterShowsCache ==
  \A i \in 1..Len(roster.sessions) :
    roster.sessions[i].displayTitle = roster.titleCache[roster.sessions[i].id]

\* C38: once every reload has settled (updateSessionTitle settles within
\* its call), every roster entry's displayTitle equals the title cache's
\* entry for its session id; also when updateSessionTitle ran while a
\* reload was in flight.
C38_RosterShowsCache == ReloadsSettled => RosterShowsCache

\* The same of reloads that never overlapped one another.
C38_WithoutOverlap ==
  (ReloadsSettled /\ \A r \in Reloads : roster.reloads[r].overlapped = {}) =>
    RosterShowsCache

\* C39: the roster's isLoading is true whenever at least one reload is in
\* flight and false once none is; a reload that ends while a newer one is
\* still running does not clear it.
C39_LoadingWhileInFlight ==
  roster.isLoading = (\E r \in Reloads : ReloadInFlight(r))

\* The same of reloads that never overlapped one another.
C39_WithoutOverlap ==
  (\A r \in Reloads : roster.reloads[r].overlapped = {}) =>
    roster.isLoading = (\E r \in Reloads : ReloadInFlight(r))

C39_WithoutOverlapWitness ==
  /\ Len(roster.reloads) = 2 /\ ReloadInFlight(2) /\ roster.isLoading
  /\ roster.reloads[2].overlapped = {}

\* The title the server holds for another session than id.
TitleOfAnother(id, title) ==
  \E other \in LoadIds : other # id /\ title = <<"title of ", other>>

\* C40: the title of one session is never stored in the title cache, nor
\* shown in the roster, under the id of another session; also after
\* loadSession(B) answered without a title while the title of A is held.
C40_TitleOfOwnSession ==
  /\ \A id \in SessionIds : ~TitleOfAnother(id, roster.titleCache[id])
  /\ \A i \in 1..Len(roster.sessions) :
       ~TitleOfAnother(roster.sessions[i].id, roster.sessions[i].displayTitle)

\* Each half on its own: the cache, the roster.
C40_CacheHalf ==
  \A id \in SessionIds : ~TitleOfAnother(id, roster.titleCache[id])
C40_RosterHalf ==
  \A i \in 1..Len(roster.sessions) :
    ~TitleOfAnother(roster.sessions[i].id, roster.sessions[i].displayTitle)
====
